---- MODULE Spec2Model ----
(***************************************************************************)
(* portfolio_metrics: a model of the metrics engine (src/metrics.js, the   *)
(* Alpha Vantage revision, and the FMP revisions src/unnamed/part_001..3)  *)
(* and of the HTTP server in front of it (src/unnamed/part_004).           *)
(*                                                                         *)
(* JavaScript numbers are modelled as exact rationals plus the special     *)
(* values NaN and the two infinities; binary floating-point rounding is    *)
(* not modelled.  A JavaScript value is a record [k, n, d, s]:             *)
(*   k = "num"   the rational n/d (d > 0, lowest terms)                    *)
(*   k = "inf"   +Infinity (n = 1) or -Infinity (n = -1)                   *)
(*   k = "nan"   NaN                                                       *)
(*   k = "null"  null          k = "undef"  undefined / absent property    *)
(*   k = "str"   the string whose characters are the sequence s            *)
(***************************************************************************)
EXTENDS Integers, Sequences, FiniteSets, TLC

VARIABLES
  env,     \* process.env: METRICS_KEY, ALPHA_VANTAGE_KEY, PORTFOLIO_JSON
  clock,   \* Date.now(), in seconds
  cache,   \* the Map of each memoized fetcher: name -> key -> [v, t]
  reqs,    \* the HTTP requests in flight or answered, one per connection slot
  served,  \* number of requests received so far
  calls,   \* direct calls of a memoized fetcher in flight (memoizer specification)
  calc     \* inputs and result of the metrics calculation (calculation specification)

vars == <<env, clock, cache, reqs, served, calls, calc>>

(* ------------------------------ JS values ------------------------------ *)

Abs(x) == IF x < 0 THEN -x ELSE x

RECURSIVE GCD(_, _)
GCD(a, b) == IF b = 0 THEN a ELSE GCD(b, a % b)

\* the rational n/d, d # 0, in lowest terms with a positive denominator
Rat(n, d) ==
  LET g == GCD(Abs(n), Abs(d))
      sgn == IF d < 0 THEN -1 ELSE 1
  IN [k |-> "num", n |-> (sgn * n) \div g, d |-> Abs(d) \div g, s |-> <<>>]

Num(i) == [k |-> "num", n |-> i, d |-> 1, s |-> <<>>]
Zero == Num(0)
Null == [k |-> "null", n |-> 0, d |-> 1, s |-> <<>>]
Undef == [k |-> "undef", n |-> 0, d |-> 1, s |-> <<>>]
NaN == [k |-> "nan", n |-> 0, d |-> 1, s |-> <<>>]
Inf(sign) == [k |-> "inf", n |-> sign, d |-> 1, s |-> <<>>]
Str(chars) == [k |-> "str", n |-> 0, d |-> 1, s |-> chars]

Digits == <<"0", "1", "2", "3", "4", "5", "6", "7", "8", "9">>
IsDigit(c) == \E i \in 1..10 : Digits[i] = c
DigitVal(c) == (CHOOSE i \in 1..10 : Digits[i] = c) - 1

RECURSIVE TrimLeft(_)
TrimLeft(s) == IF s # <<>> /\ Head(s) = " " THEN TrimLeft(Tail(s)) ELSE s

RECURSIVE TrimRight(_)
TrimRight(s) ==
  IF s # <<>> /\ s[Len(s)] = " " THEN TrimRight(SubSeq(s, 1, Len(s) - 1)) ELSE s

RECURSIVE Pow10(_)
Pow10(e) == IF e = 0 THEN 1 ELSE 10 * Pow10(e - 1)

\* value of a sequence of decimal digits
RECURSIVE DigitsVal(_)
DigitsVal(s) ==
  IF s = <<>> THEN 0 ELSE 10 * DigitsVal(SubSeq(s, 1, Len(s) - 1)) + DigitVal(s[Len(s)])

AllDigits(s) == \A i \in 1..Len(s) : IsDigit(s[i])

\* the digits before and after the point
parseParts(ip, fp) ==
  IF AllDigits(ip) /\ AllDigits(fp) /\ Len(ip) + Len(fp) > 0
  THEN [k |-> "num", n |-> DigitsVal(ip) * Pow10(Len(fp)) + DigitsVal(fp),
        d |-> Pow10(Len(fp)), s |-> <<>>]
  ELSE NaN

\* position of the first point of u, Len(u) + 1 when it has none
DotPos(u) ==
  IF \E i \in 1..Len(u) : u[i] = "."
  THEN CHOOSE i \in 1..Len(u) : u[i] = "." /\ \A j \in 1..(i - 1) : u[j] # "."
  ELSE Len(u) + 1

splitAt(u, p) == parseParts(SubSeq(u, 1, p - 1), SubSeq(u, p + 1, Len(u)))

\* lowest terms, with the sign
signed(neg, m) ==
  IF m.k # "num" THEN m ELSE IF neg THEN Rat(-m.n, m.d) ELSE Rat(m.n, m.d)

parseTrimmed(t) ==
  IF t = <<>> THEN Zero
  ELSE IF Head(t) = "-" THEN signed(TRUE, splitAt(Tail(t), DotPos(Tail(t))))
  ELSE signed(FALSE, splitAt(t, DotPos(t)))

\* StringToNumber of ECMAScript, for decimal literals: surrounding blanks are
\* trimmed, the empty string is 0, an optional sign, digits with an optional
\* point; anything else is NaN.
StringToNumber(chars) == parseTrimmed(TrimRight(TrimLeft(chars)))

\* ToNumber of a value that is not a string: null is 0, undefined is NaN
ToNumeric(x) ==
  CASE x.k = "null" -> Zero
    [] x.k = "undef" -> NaN
    [] OTHER -> x

\* Number(x): the ToNumber coercion
Number(x) == IF x.k = "str" THEN StringToNumber(x.s) ELSE ToNumeric(x)

IsNaN(x) == x.k = "nan"
IsFinite(x) == x.k = "num"
IsNullish(x) == x.k \in {"null", "undef"}      \* x == null
Sign(x) == IF x.n > 0 THEN 1 ELSE IF x.n < 0 THEN -1 ELSE 0

\* x ?? y
Coalesce(x, y) == IF IsNullish(x) THEN y ELSE x

\* the truthiness test of !x, x || y
Truthy(x) ==
  CASE x.k \in {"null", "undef", "nan"} -> FALSE
    [] x.k = "num" -> x.n # 0
    [] x.k = "str" -> x.s # <<>>
    [] OTHER -> TRUE

\* x || y
OrElse(x, y) == IF Truthy(x) THEN x ELSE y

\* The arithmetic of the program never has a string operand (every provider
\* or configuration field goes through toNum or Number first).
\* a * b
JsMul(x, y) ==
  LET a == ToNumeric(x)
      b == ToNumeric(y)
  IN CASE IsNaN(a) \/ IsNaN(b) -> NaN
       [] a.k = "inf" \/ b.k = "inf" ->
            IF Sign(a) * Sign(b) = 0 THEN NaN ELSE Inf(Sign(a) * Sign(b))
       [] OTHER -> Rat(a.n * b.n, a.d * b.d)

\* a + b
JsAdd(x, y) ==
  LET a == ToNumeric(x)
      b == ToNumeric(y)
  IN CASE IsNaN(a) \/ IsNaN(b) -> NaN
       [] a.k = "inf" /\ b.k = "inf" -> IF a.n = b.n THEN a ELSE NaN
       [] a.k = "inf" -> a
       [] b.k = "inf" -> b
       [] OTHER -> Rat(a.n * b.d + b.n * a.d, a.d * b.d)

JsNeg(x) ==
  LET a == ToNumeric(x)
  IN CASE IsNaN(a) -> NaN
       [] a.k = "inf" -> Inf(-a.n)
       [] OTHER -> Rat(-a.n, a.d)

\* a - b
JsSub(x, y) == JsAdd(x, JsNeg(y))

\* a / b: IEEE division, x/0 is an infinity and 0/0 is NaN
JsDiv(x, y) ==
  LET a == ToNumeric(x)
      b == ToNumeric(y)
  IN CASE IsNaN(a) \/ IsNaN(b) -> NaN
       [] a.k = "inf" /\ b.k = "inf" -> NaN
       [] a.k = "inf" -> Inf(IF Sign(b) < 0 THEN -a.n ELSE a.n)
       [] b.k = "inf" -> Zero
       [] b.n = 0 -> IF a.n = 0 THEN NaN ELSE Inf(Sign(a))
       [] OTHER -> Rat(a.n * b.d, a.d * b.n)

\* a > b; any comparison with NaN (undefined coerces to NaN) is false
JsGt(x, y) ==
  LET a == ToNumeric(x)
      b == ToNumeric(y)
  IN CASE IsNaN(a) \/ IsNaN(b) -> FALSE
       [] a.k = "inf" -> a.n = 1 /\ ~(b.k = "inf" /\ b.n = 1)
       [] b.k = "inf" -> b.n = -1
       [] OTHER -> a.n * b.d > b.n * a.d

\* a <= b
JsLe(x, y) ==
  LET a == ToNumeric(x)
      b == ToNumeric(y)
  IN ~IsNaN(a) /\ ~IsNaN(b) /\ ~JsGt(a, b)

\* a === b for the values compared in the program (numbers against numbers)
StrictEq(x, y) ==
  /\ x.k = y.k
  /\ x.k # "nan"
  /\ x = y

(* -------------------------------- helpers ------------------------------- *)

\* metrics.js:28  toNum = (x) => (x == null || Number.isNaN(Number(x)) ? null : Number(x))
nullIfNaN(x, n) == IF IsNullish(x) \/ IsNaN(n) THEN Null ELSE n

toNum(x) == nullIfNaN(x, Number(x))

\* the plain quotient, what safeDiv would be without its guard
safeDivNoGuard(a, b) == JsDiv(a, b)

\* metrics.js: const safeDiv = (a, b) => (b === 0 ? null : a / b)
safeDiv(a, b) == IF StrictEq(b, Zero) THEN Null ELSE JsDiv(a, b)

(* --------------------------------- dates -------------------------------- *)
\* A date string 'YYYY-MM-DD' is the record [ok, y, doy]: calendar year and
\* day of the year (1..365, leap days are not modelled); ok = FALSE is a
\* string dayjs cannot parse.
Date(y, doy) == [ok |-> TRUE, y |-> y, doy |-> doy]
BadDate == [ok |-> FALSE, y |-> 0, doy |-> 0]
DayNo(dt) == dt.y * 365 + dt.doy

\* dayjs(a).isAfter(b), both at day granularity
IsAfter(a, b) == DayNo(a) > DayNo(b)
\* dayjs(a).isSame(b, 'day')
IsSameDay(a, b) == DayNo(a) = DayNo(b)
\* dayjs().subtract(365, 'day')
Minus365(dt) == Date(dt.y - 1, dt.doy)

\* metrics.js:5  START_DATE = dayjs(process.env.START_DATE || '2023-01-01')
START_DATE == Date(2023, 1)

\* metrics.js:30  lastFullCalendarYear = () => dayjs().year() - 1
lastFullCalendarYear(today) == today.y - 1

(* ------------------------------ calculations ---------------------------- *)

\* obj[key] on a JS object modelled as a function: an absent key is undefined
Get(obj, key) == IF key \in DOMAIN obj THEN obj[key] ELSE Undef

\* obj[key] = v
Put(obj, key, v) == [x \in (DOMAIN obj) \cup {key} |-> IF x = key THEN v ELSE obj[x]]

EmptyObj == [x \in {} |-> Undef]

\* Array.prototype.sort by date (stable insertion sort)
RECURSIVE InsertByDate(_, _)
InsertByDate(sorted, r) ==
  IF sorted = <<>> THEN <<r>>
  ELSE IF DayNo(r.date) < DayNo(Head(sorted).date) THEN <<r>> \o sorted
  ELSE <<Head(sorted)>> \o InsertByDate(Tail(sorted), r)

RECURSIVE SortByDate(_)
SortByDate(rows) ==
  IF rows = <<>> THEN <<>>
  ELSE InsertByDate(SortByDate(SubSeq(rows, 1, Len(rows) - 1)), rows[Len(rows)])

FilterSeq(seq, Keep(_)) ==
  LET F[i \in 0..Len(seq)] ==
        IF i = 0 THEN <<>>
        ELSE IF Keep(seq[i]) THEN Append(F[i - 1], seq[i]) ELSE F[i - 1]
  IN F[Len(seq)]

\* rows.find(pred): the first element satisfying pred, as a one-element
\* sequence, or <<>> for undefined
FindFirst(seq, P(_)) ==
  LET hits == {i \in 1..Len(seq) : P(seq[i])}
  IN IF hits = {} THEN <<>> ELSE <<seq[CHOOSE i \in hits : \A j \in hits : i <= j]>>

\* the dividend loop shared by analyzeFromDaily and analyzeFromMonthly, over
\* the rows in order: byYear[y] = (byYear[y] || 0) + r.div, and ttm += r.div
\* for a row after ttmStart
DivLoop(rows, ttmStart, Counts(_)) ==
  LET F[i \in 0..Len(rows)] ==
        IF i = 0 THEN [byYear |-> EmptyObj, ttm |-> Zero]
        ELSE LET r == rows[i]
                 acc == F[i - 1]
                 y == r.date.y
             IN IF Counts(r)
                THEN [byYear |-> Put(acc.byYear, y, JsAdd(OrElse(Get(acc.byYear, y), Zero), r.div)),
                      ttm |-> IF IsAfter(r.date, ttmStart) THEN JsAdd(acc.ttm, r.div) ELSE acc.ttm]
                ELSE acc
  IN F[Len(rows)]

\* a test that lets every amount that is a number through
AnyNumberDiv(r) == ~IsNullish(r.div)

PositiveDiv(r) == Truthy(r.div) /\ JsGt(r.div, Zero)

\* metrics.js:184-189: a bar is [date, close, adjClose, div] with the
\* provider's raw (string) fields
parseBar(b) ==
  [date |-> b.date, close |-> toNum(b.close), adjClose |-> toNum(b.adjClose),
   div |-> toNum(b.div)]

ValidDate(x) == x.date.ok

\* metrics.js:183-191: parsed, bars with an unreadable date dropped, by date
dailyRows(daily) ==
  SortByDate(FilterSeq([i \in 1..Len(daily) |-> parseBar(daily[i])], ValidDate))

LastOf(rows) == IF rows = <<>> THEN <<>> ELSE <<rows[Len(rows)]>>

\* metrics.js:198: the first bar on or after START_DATE
OnOrAfterStart(r) == IsSameDay(r.date, START_DATE) \/ IsAfter(r.date, START_DATE)

\* metrics.js:195, 199: adjusted ? row?.adjClose : row?.close
priceOf(opt, adjusted) ==
  IF opt = <<>> THEN Undef ELSE IF adjusted THEN opt[1].adjClose ELSE opt[1].close

\* metrics.js:202-212
dailyDividends(rows, adjusted, today) ==
  IF adjusted THEN DivLoop(rows, Minus365(today), PositiveDiv)
  ELSE [byYear |-> EmptyObj, ttm |-> Zero]

dailyResult(currentPrice, startPrice, divs, adjusted) ==
  [currentPrice |-> currentPrice, startPrice |-> startPrice,
   byYear |-> divs.byYear, ttmDivPS |-> IF adjusted THEN divs.ttm ELSE Null]

analyzeRows(rows, adjusted, today) ==
  dailyResult(priceOf(LastOf(rows), adjusted),
              priceOf(FindFirst(rows, OnOrAfterStart), adjusted),
              dailyDividends(rows, adjusted, today), adjusted)

\* metrics.js:181-215.  daily is the sequence Object.entries yields.
analyzeFromDaily(daily, adjusted, today) == analyzeRows(dailyRows(daily), adjusted, today)

\* metrics.js:219
parseMonth(b) == [date |-> b.date, div |-> toNum(b.div)]
\* metrics.js:220
KeepMonth(x) == x.date.ok /\ PositiveDiv(x)
AnyRow(x) == TRUE

monthlyResult(divs) == [byYear |-> divs.byYear, ttmDivPS |-> divs.ttm]

\* metrics.js:217-230
analyzeFromMonthly(monthlySeries, today) ==
  monthlyResult(
    DivLoop(FilterSeq([i \in 1..Len(monthlySeries) |-> parseMonth(monthlySeries[i])],
                      KeepMonth),
            Minus365(today), AnyRow))

\* b^e, saturating at cap + 1, so that a root can be searched without overflow
RECURSIVE PowCap(_, _, _)
PowCap(b, e, cap) ==
  IF e = 0 THEN 1
  ELSE LET p == PowCap(b, e - 1, cap)
       IN IF p > cap \/ (b > 0 /\ p > cap \div b) THEN cap + 1 ELSE p * b

\* the largest r with r^n <= x, and the least r with r^n >= x
FloorRoot(x, n) == CHOOSE r \in 0..x : PowCap(r, n, x) <= x /\ PowCap(r + 1, n, x) > x
CeilRoot(x, n) == CHOOSE r \in 0..x : PowCap(r, n, x) >= x /\ (r = 0 \/ PowCap(r - 1, n, x) < x)

\* Math.pow(q, 1 / n) for a finite q > 0: exact when q is a perfect n-th power
\* of a rational, and otherwise rounded down to FloorRoot(num) / CeilRoot(den)
NthRoot(q, n) == Rat(FloorRoot(q.n, n), CeilRoot(q.d, n))

\* metrics.js:240: Math.pow(q, 1 / n) - 1, q = end / start with both positive
growth(q, n) ==
  IF IsFinite(q) /\ q.n > 0 THEN JsSub(NthRoot(q, n), Num(1))
  ELSE IF q.k = "inf" /\ q.n = 1 THEN q ELSE NaN

\* a growth rate computed without looking whether there is a start total
dgrOfNoStartCheck(end, start, n) ==
  IF ~Truthy(end) THEN Null ELSE growth(JsDiv(end, start), n)

dgrOf(end, start, n) ==
  IF ~Truthy(end) \/ ~Truthy(start) \/ JsLe(start, Zero) THEN Null
  ELSE growth(JsDiv(end, start), n)

\* metrics.js:232-241
dgr(byYear, n, today) ==
  dgrOf(Get(byYear, lastFullCalendarYear(today)),
        Get(byYear, lastFullCalendarYear(today) - n), n)

\* r.field of a row object; a field the object does not have is undefined
Field(r, f) == IF f \in DOMAIN r THEN r[f] ELSE Undef

\* the dividend of one share taken for the income of the position
annualIncomePerShare(ttmDivPS, shares) == Coalesce(ttmDivPS, Zero)

\* metrics.js:276: (ttmDivPS ?? 0) * t.shares
annualIncome(ttmDivPS, shares) == JsMul(Coalesce(ttmDivPS, Zero), shares)

\* a price return computed whenever there is a current price
hasReturnNoBaseline(currPx, startPx) == ~IsNullish(currPx)

\* metrics.js:270: currPx != null && startPrice != null && startPrice > 0
hasReturnOf(currPx, startPx) ==
  ~IsNullish(currPx) /\ ~IsNullish(startPx) /\ JsGt(startPx, Zero)

\* metrics.js:263-302 (part_001:126-163, part_003:211-251, part_002:254-294):
\* the row analyzeTicker computes once the fetched values are at hand
metricsRow(t, name, currency, currPx, startPx, byYear, ttmDivPS, today) ==
  LET mv == IF ~IsNullish(currPx) THEN JsMul(currPx, t.shares) ELSE Null
      currentYield == IF ~IsNullish(currPx) THEN safeDiv(ttmDivPS, currPx) ELSE Null
      yieldOnCost == safeDiv(ttmDivPS, t.avgPrice)
      hasReturn == hasReturnOf(currPx, startPx)
      annualDivIncome == annualIncome(ttmDivPS, t.shares)
  IN [ticker |-> t.ticker, name |-> name, currency |-> currency,
      shares |-> t.shares, avgPrice |-> t.avgPrice,
      currentPrice |-> currPx, startPrice |-> startPx,
      marketValue |-> mv, ttmDivPS |-> ttmDivPS,
      currentYield |-> currentYield, yieldOnCost |-> yieldOnCost,
      dgr3 |-> dgr(byYear, 3, today), dgr5 |-> dgr(byYear, 5, today),
      dgr10 |-> dgr(byYear, 10, today),
      priceReturnAbs |-> IF hasReturn THEN JsMul(JsSub(currPx, startPx), t.shares) ELSE Null,
      priceReturnPct |-> IF hasReturn THEN JsDiv(JsSub(currPx, startPx), startPx) ELSE Null,
      annualDivIncome |-> annualDivIncome,
      monthlyDivIncome |-> JsDiv(annualDivIncome, Num(12))]

\* a sum that a missing field turns into null
plusOrNull(sum, x) == IF IsNullish(x) THEN Null ELSE JsAdd(sum, x)

\* metrics.js:325: totals.marketValue += r.marketValue ?? 0
plusOrZero(sum, x) == JsAdd(sum, Coalesce(x, Zero))

\* the plain quotient of the two sums
returnPctNoGuard(pricePnL, startValue) == JsDiv(pricePnL, startValue)

\* metrics.js:330: totals.startValue > 0 ? totals.pricePnL / totals.startValue : null
returnPct(pricePnL, startValue) ==
  IF JsGt(startValue, Zero) THEN JsDiv(pricePnL, startValue) ELSE Null

\* metrics.js:314-345
aggregate(rows) ==
  LET F[i \in 0..Len(rows)] ==
        IF i = 0 THEN [marketValue |-> Zero, pricePnL |-> Zero,
                       annualDivIncome |-> Zero, startValue |-> Zero]
        ELSE LET r == rows[i]
                 a == F[i - 1]
             IN [marketValue |-> plusOrZero(a.marketValue, Field(r, "marketValue")),
                 pricePnL |-> plusOrZero(a.pricePnL, Field(r, "priceReturnAbs")),
                 annualDivIncome |-> plusOrZero(a.annualDivIncome, Field(r, "annualDivIncome")),
                 startValue |->
                   JsAdd(a.startValue,
                         JsMul(Coalesce(Field(r, "startPrice"), Zero), Field(r, "shares")))]
      sums == F[Len(rows)]
  IN [currency |-> "", tickers |-> Len(rows),
      marketValue |-> sums.marketValue, pricePnL |-> sums.pricePnL,
      annualDivIncome |-> sums.annualDivIncome, startValue |-> sums.startValue,
      priceReturnPct |-> returnPct(sums.pricePnL, sums.startValue),
      monthlyDivIncome |-> JsDiv(sums.annualDivIncome, Num(12))]

(* ---------------------------- portfolio loading -------------------------- *)
\* process.env.PORTFOLIO_JSON is modelled after JSON.parse and Object.entries:
\*   [kind |-> "missing"]   the variable is unset or empty
\*   [kind |-> "badjson"]   JSON.parse throws
\*   [kind |-> "map", entries |-> <<[ticker, shares, avgPrice], ...>>]
\* where shares and avgPrice are the raw JSON values (Undef: no such property).

\* a loader that drops invalid positions instead of throwing
loadPortfolioSkipInvalid(pf) ==
  IF pf.kind = "missing" THEN [ok |-> FALSE, error |-> "PORTFOLIO_JSON missing", entries |-> <<>>]
  ELSE IF pf.kind = "badjson"
  THEN [ok |-> FALSE, error |-> "PORTFOLIO_JSON invalid JSON", entries |-> <<>>]
  ELSE LET Valid(e) == Truthy(toNum(e.shares)) /\ Truthy(toNum(e.avgPrice))
           good == FilterSeq(pf.entries, Valid)
       IN IF good = <<>> THEN [ok |-> FALSE, error |-> "Empty portfolio", entries |-> <<>>]
          ELSE [ok |-> TRUE, error |-> "",
                entries |-> [i \in 1..Len(good) |->
                               [ticker |-> good[i].ticker, shares |-> toNum(good[i].shares),
                                avgPrice |-> toNum(good[i].avgPrice)]]]

\* metrics.js:32-46 (loadAll, metrics.js:347-349, returns it unchanged):
\* the entries, or the error thrown
loadPortfolio(pf) ==
  IF pf.kind = "missing" THEN [ok |-> FALSE, error |-> "PORTFOLIO_JSON missing", entries |-> <<>>]
  ELSE IF pf.kind = "badjson"
  THEN [ok |-> FALSE, error |-> "PORTFOLIO_JSON invalid JSON", entries |-> <<>>]
  ELSE LET Bad(e) == ~Truthy(toNum(e.shares)) \/ ~Truthy(toNum(e.avgPrice))
           bad == FindFirst(pf.entries, Bad)
       IN IF bad # <<>>
          THEN [ok |-> FALSE, error |-> "Invalid shares/avgPrice", entries |-> <<>>]
          ELSE IF pf.entries = <<>>
          THEN [ok |-> FALSE, error |-> "Empty portfolio", entries |-> <<>>]
          ELSE [ok |-> TRUE, error |-> "",
                entries |-> [i \in 1..Len(pf.entries) |->
                               [ticker |-> pf.entries[i].ticker,
                                shares |-> toNum(pf.entries[i].shares),
                                avgPrice |-> toNum(pf.entries[i].avgPrice)]]]

(* --------------------------- symbol normalization ------------------------ *)
\* A ticker is the sequence of its tokens: maximal alphanumeric runs and the
\* separators between them, "SRU-UN.TO" = <<"SRU", "-", "UN", ".", "TO">>.

EndsWithDot(tk, suffix) ==
  Len(tk) >= 2 /\ tk[Len(tk) - 1] = "." /\ tk[Len(tk)] = suffix

ReplaceLast(tk, suffix) == [tk EXCEPT ![Len(tk)] = suffix]

\* /^([A-Z0-9]+)-([A-Z0-9]+)\.(TRT|TRV)$/i
HyphenForm(tk) ==
  Len(tk) = 5 /\ tk[2] = "-" /\ tk[4] = "." /\ tk[5] \in {"TRT", "TRV"}

AppendNew(seq, x) == IF \E i \in 1..Len(seq) : seq[i] = x THEN seq ELSE Append(seq, x)

\* metrics.js:98-114: the symbols to try, in the Set's insertion order
avSymbolVariants(ticker) ==
  LET v1 == <<ticker>>
      v2 == IF EndsWithDot(ticker, "TO") THEN AppendNew(v1, ReplaceLast(ticker, "TRT")) ELSE v1
      v3 == IF EndsWithDot(ticker, "V") THEN AppendNew(v2, ReplaceLast(ticker, "TRV")) ELSE v2
      \* forEach also visits the symbols it adds, which never match again
      F[i \in 0..Len(v3)] ==
        IF i = 0 THEN v3
        ELSE IF HyphenForm(v3[i]) THEN AppendNew(F[i - 1], [v3[i] EXCEPT ![2] = "."])
        ELSE F[i - 1]
  IN F[Len(v3)]

(* -------------------------------- memoizer ------------------------------- *)
\* Times are in seconds (the source's are milliseconds).
\* metrics.js:156  memoizeTTL(_fetchDailyBundle, 6 * 60 * 60_000, 'daily')
TtlDaily == 21600
\* metrics.js:178  memoizeTTL(_fetchMonthlyAdjusted, 24 * 60 * 60_000, 'monthly')
TtlMonthly == 86400

Ttl(name) == IF name = "daily" THEN TtlDaily ELSE TtlMonthly

\* a test that still serves an entry exactly as old as the TTL
memoHitAtTtl(m, key, now, ttlMs) == key \in DOMAIN m /\ (now - m[key].t) <= ttlMs

\* metrics.js:82-83: c = cache.get(key); c && (now - c.t) < ttlMs
memoHit(m, key, now, ttlMs) == key \in DOMAIN m /\ (now - m[key].t) < ttlMs

\* a store that keeps the timestamp of the entry it replaces
memoStoreKeepTime(m, key, v, now) ==
  Put(m, key, [v |-> v, t |-> IF key \in DOMAIN m THEN m[key].t ELSE now])

\* metrics.js:91: cache.set(key, { v, t: now }), now read when the call began
memoStore(m, key, v, now) == Put(m, key, [v |-> v, t |-> now])

(* ------------------------------ the provider ----------------------------- *)
\* What one HTTP request to Alpha Vantage can come back with:
\*   "neterr"   fetch rejects            "http"   a status that is not 2xx
\*   "notjson"  the body is not JSON     "note"   a Note/Information/Error
\*   "json"     a JSON body; hasSeries   Message envelope
\*              says whether it carries the time-series property, series is
\*              that property as Object.entries yields it
Outcome(kind, hasSeries, series) == [kind |-> kind, hasSeries |-> hasSeries, series |-> series]

S1(c) == Str(<<c>>)
S2(c1, c2) == Str(<<c1, c2>>)
Bar(date, close, adjClose, div) ==
  [date |-> date, close |-> close, adjClose |-> adjClose, div |-> div]

\* TIME_SERIES_DAILY_ADJUSTED with dividends in the last twelve months
DailyPaying ==
  << Bar(Date(2025, 150), S2("1", "5"), S2("1", "4"), S1("2")),
     Bar(Date(2023, 2), S2("1", "0"), S1("7"), S1("0")),
     Bar(Date(2022, 300), S1("9"), S1("6"), S1("1")) >>
\* TIME_SERIES_DAILY_ADJUSTED of a stock that pays nothing
DailyNoDiv ==
  << Bar(Date(2023, 1), S1("4"), S1("4"), S1("0")),
     Bar(Date(2025, 190), S1("6"), S1("6"), S1("0")) >>
\* TIME_SERIES_DAILY: no adjusted close, no dividend amount
DailyRaw ==
  << Bar(Date(2022, 360), S1("8"), Undef, Undef),
     Bar(Date(2025, 199), S2("1", "2"), Undef, Undef) >>
\* TIME_SERIES_MONTHLY_ADJUSTED
MonthlyPaying ==
  << Bar(Date(2025, 120), S1("5"), S1("5"), S1("1")),
     Bar(Date(2024, 120), S1("5"), S1("5"), Str(<<"0", ".", "5">>)),
     Bar(Date(2021, 120), S1("5"), S1("5"), Str(<<"0", ".", "5">>)) >>

\* The answers the provider can give to a request, by function and symbol:
\* it knows no ".TO" symbol, has dividend-paying data only for CCC, and no
\* working DAILY endpoint for BBB.
AvOutcomes(fn, symbol) ==
  LET note == Outcome("note", FALSE, <<>>)
      http == Outcome("http", FALSE, <<>>)
      noSeries == Outcome("json", FALSE, <<>>)
  IN CASE Len(symbol) > 1 /\ symbol[Len(symbol)] = "TO" ->
            IF fn = "TIME_SERIES_DAILY" THEN {http} ELSE {note}
       [] fn = "TIME_SERIES_DAILY_ADJUSTED" ->
            IF symbol = <<"CCC">> THEN {Outcome("json", TRUE, DailyPaying)}
            ELSE IF symbol = <<"BBB">> THEN {note, Outcome("json", TRUE, DailyNoDiv)}
            ELSE {note, Outcome("json", TRUE, DailyPaying), Outcome("json", TRUE, DailyNoDiv)}
       [] fn = "TIME_SERIES_DAILY" ->
            IF symbol = <<"BBB">> THEN {http} ELSE {http, Outcome("json", TRUE, DailyRaw)}
       [] OTHER ->
            IF symbol = <<"BBB">> THEN {Outcome("json", TRUE, MonthlyPaying)}
            ELSE {noSeries, Outcome("json", TRUE, MonthlyPaying)}

\* an av() that does not look for Note, Information or Error Message
avResultNoEnvelope(o) ==
  CASE o.kind = "neterr" -> [ok |-> FALSE, error |-> "fetch failed"]
    [] o.kind = "http" -> [ok |-> FALSE, error |-> "AV http status"]
    [] o.kind = "notjson" -> [ok |-> FALSE, error |-> "AV response not JSON"]
    [] OTHER -> [ok |-> TRUE, error |-> ""]

\* metrics.js:58-75: what av() makes of the response: the JSON, or the error
avResult(o) ==
  CASE o.kind = "neterr" -> [ok |-> FALSE, error |-> "fetch failed"]
    [] o.kind = "http" -> [ok |-> FALSE, error |-> "AV http status"]
    [] o.kind = "notjson" -> [ok |-> FALSE, error |-> "AV response not JSON"]
    [] o.kind = "note" -> [ok |-> FALSE, error |-> "AV API message"]
    [] OTHER -> [ok |-> TRUE, error |-> ""]

\* metrics.js:131-132, 145-146, 168-169: if (!series) throw
seriesError(name, phase) ==
  IF name = "monthly" THEN "No monthly adjusted series"
  ELSE IF phase = "adj" THEN "No daily adjusted series" ELSE "No daily series"

\* the function= parameter of the request an attempt sends
avFunction(name, phase) ==
  IF name = "monthly" THEN "TIME_SERIES_MONTHLY_ADJUSTED"
  ELSE IF phase = "adj" THEN "TIME_SERIES_DAILY_ADJUSTED" ELSE "TIME_SERIES_DAILY"

(* ------------------------------- the server ------------------------------ *)
\* dayjs() at clock time now: the model starts on day 200 of 2025
TodayAt(now) == Date(2025, 200 + now \div 86400)

NoCall == [name |-> "", key |-> <<>>, now |-> 0, vi |-> 0, phase |-> "",
           lastErr |-> "", sent |-> <<>>]
NoVal == [symbol |-> <<>>, series |-> <<>>, adjusted |-> FALSE]
NoDaily == [currentPrice |-> Undef, startPrice |-> Undef, byYear |-> EmptyObj, ttmDivPS |-> Null]
NoAuth == [bearer |-> "absent", query |-> "absent"]
\* the credentials of a request are kept until its handler first resumes
Forgotten == [bearer |-> "-", query |-> "-"]
NoResp == [status |-> 0, type |-> "", error |-> "", perTicker |-> <<>>,
           totals |-> aggregate(<<>>), table |-> <<>>]
FreeReq == [pc |-> "free", route |-> "", auth |-> NoAuth, ran |-> FALSE, pf |-> <<>>,
            i |-> 0, rows |-> <<>>, call |-> NoCall, val |-> NoVal, dres |-> NoDaily,
            fetches |-> 0, resp |-> NoResp]

\* part_004:33  r => !r.error
NotErrorRow(row) == ~("error" \in DOMAIN row /\ row.error # "")

\* Number.prototype.toFixed(digits): the nearest multiple of 10^-digits, ties
\* away from zero, as the scaled integer n
toFixed(x, digits) ==
  LET scaled == Abs(x.n) * Pow10(digits)
      q == (2 * scaled + x.d) \div (2 * x.d)
  IN [k |-> "fixed", n |-> IF x.n < 0 THEN -q ELSE q, d |-> digits, s |-> <<>>]

\* JSON.stringify then JSON.parse of a field: NaN and the infinities become
\* null, an undefined property is dropped
viaJson(v) == IF v.k \in {"nan", "inf"} THEN Null ELSE v

Dash == Str(<<"-">>)
\* part_004:50  fmt = (x, d=2) => (x == null ? '-' : x.toFixed(d))
fmt(x) == IF IsNullish(x) THEN Dash ELSE toFixed(x, 2)
\* part_004:49  fmtPct = (x) => (x == null ? '-' : (x * 100).toFixed(2) + '%')
fmtPct(x) == IF IsNullish(x) THEN Dash ELSE toFixed(JsMul(x, Num(100)), 2)

\* part_004:83-101: one <tr> of the table
htmlRow(r) ==
  LET F(f) == viaJson(Field(r, f))
  IN [ticker |-> r.ticker, shares |-> F("shares"), avgPrice |-> fmt(F("avgPrice")),
      startPrice |-> fmt(F("startPrice")), currentPrice |-> fmt(F("currentPrice")),
      priceReturnPct |-> fmtPct(F("priceReturnPct")), ttmDivPS |-> fmt(F("ttmDivPS")),
      currentYield |-> fmtPct(F("currentYield")), yieldOnCost |-> fmtPct(F("yieldOnCost")),
      dgr3 |-> fmtPct(F("dgr3")), dgr5 |-> fmtPct(F("dgr5")), dgr10 |-> fmtPct(F("dgr10")),
      annualDivIncome |-> fmt(F("annualDivIncome")),
      monthlyDivIncome |-> fmt(F("monthlyDivIncome"))]

\* a table with a row for every row of the answer, error rows included
htmlTableAllRows(perTicker) == [i \in 1..Len(perTicker) |-> htmlRow(perTicker[i])]

\* part_004:51, 83: rows = r.perTicker.filter(x => !x.error), one <tr> each
htmlTable(perTicker) ==
  LET rows == FilterSeq(perTicker, NotErrorRow)
  IN [i \in 1..Len(rows) |-> htmlRow(rows[i])]

\* part_004:45-124: what /metrics.html makes of the answer of its own request
\* to /metrics; a 500 answer has no perTicker, and filter of undefined throws
renderHtml(inner) ==
  IF inner.status = 200
  THEN [NoResp EXCEPT !.status = 200, !.type = "html", !.perTicker = inner.perTicker,
                      !.totals = inner.totals, !.table = htmlTable(inner.perTicker)]
  ELSE [NoResp EXCEPT !.status = 500, !.type = "text",
                      !.error = "Cannot read properties of undefined"]

\* res.json / res.status(500).json of /metrics, passed through /metrics.html
\* when the request came in there
respond(r, inner) ==
  [r EXCEPT !.pc = "done", !.call = NoCall, !.val = NoVal, !.dres = NoDaily,
            !.resp = IF r.route = "html" THEN renderHtml(inner) ELSE inner]

\* an answer sent with the first row only
jsonOkPartial(rows) ==
  [NoResp EXCEPT !.status = 200, !.type = "json", !.perTicker = SubSeq(rows, 1, 1),
                 !.totals = aggregate(FilterSeq(SubSeq(rows, 1, 1), NotErrorRow))]

jsonOk(rows) ==
  [NoResp EXCEPT !.status = 200, !.type = "json", !.perTicker = rows,
                 !.totals = aggregate(FilterSeq(rows, NotErrorRow))]
jsonError(msg) == [NoResp EXCEPT !.status = 500, !.type = "json", !.error = msg]

\* part_004:28: rows.push(...) and on to the next position
pushRow(r, row) ==
  [r EXCEPT !.rows = Append(@, row), !.i = @ + 1, !.pc = "loop",
            !.call = NoCall, !.val = NoVal, !.dres = NoDaily]

\* a handler without the inner try: the error reaches the outer catch
onTickerErrorAbort(r, msg) == respond(r, jsonError(msg))

\* a handler whose inner catch pushes no row
onTickerErrorSkip(r, msg) ==
  [r EXCEPT !.i = @ + 1, !.pc = "loop", !.call = NoCall, !.val = NoVal, !.dres = NoDaily]

\* part_004:29-31: catch (e) { rows.push({ ticker: t.ticker, error: e.message }) }
onTickerError(r, msg) == pushRow(r, [ticker |-> r.pf[r.i].ticker, error |-> msg])

\* a fetcher that goes on to the next symbol without trying DAILY
attemptFailedSkipRaw(r, err) ==
  IF r.call.vi < Len(avSymbolVariants(r.call.key))
  THEN [r EXCEPT !.pc = "try", !.call.vi = @ + 1, !.call.lastErr = err,
                 !.call.phase = IF r.call.name = "daily" THEN "adj" ELSE "monthly"]
  ELSE onTickerError(r, err)

\* metrics.js:135-152, 171-174: an attempt of the pending call failed with
\* err: DAILY after DAILY_ADJUSTED, then the next symbol variant; when none
\* is left the call throws the last error and analyzeTicker with it
attemptFailed(r, err) ==
  LET c == r.call
      tries == avSymbolVariants(c.key)
  IN IF c.name = "daily" /\ c.phase = "adj"
     THEN [r EXCEPT !.pc = "try", !.call.phase = "raw", !.call.lastErr = err]
     ELSE IF c.vi < Len(tries)
     THEN [r EXCEPT !.pc = "try", !.call.vi = @ + 1, !.call.lastErr = err,
                    !.call.phase = IF c.name = "daily" THEN "adj" ELSE "monthly"]
     ELSE onTickerError(r, err)

\* metrics.js:263-311: the row, from the daily analysis d and the dividends
rowDone(r, d, byYear, ttmDivPS, now) ==
  LET t == r.pf[r.i]
  IN pushRow(r, metricsRow(t, t.ticker, "", d.currentPrice, d.startPrice,
                          byYear, ttmDivPS, TodayAt(now)))

\* av() without the check of ALPHA_VANTAGE_KEY
avSendNoKeyCheck(r, avKey) ==
  [r EXCEPT !.pc = "net", !.fetches = @ + 1,
            !.call.sent = Append(@, [fn |-> avFunction(r.call.name, r.call.phase),
                                     symbol |-> avSymbolVariants(r.call.key)[r.call.vi],
                                     answer |-> "pending"])]

\* metrics.js:50-58: av() throws without ALPHA_VANTAGE_KEY (the throw is
\* caught as a failed attempt), else it sends the request and awaits it
avSend(r, avKey) ==
  IF ~avKey THEN attemptFailed(r, "ALPHA_VANTAGE_KEY missing")
  ELSE [r EXCEPT !.pc = "net", !.fetches = @ + 1,
                 !.call.sent = Append(@, [fn |-> avFunction(r.call.name, r.call.phase),
                                          symbol |-> avSymbolVariants(r.call.key)[r.call.vi],
                                          answer |-> "pending"])]

\* metrics.js:250-261: with the daily analysis d, the dividends come from
\* it, or from fetchMonthlyAdjusted when it has none (if (!ttmDivPS))
gotDaily(st, d, now) ==
  IF ~Truthy(d.ttmDivPS)
  THEN [st EXCEPT !.r.pc = "memo", !.r.dres = d, !.r.val = NoVal,
                  !.r.call = [NoCall EXCEPT !.name = "monthly"]]
  ELSE [st EXCEPT !.r = rowDone(st.r, d, d.byYear, d.ttmDivPS, now)]

\* metrics.js:258-260
gotMonthly(st, m, now) ==
  [st EXCEPT !.r = rowDone(st.r, st.r.dres, m.byYear, m.ttmDivPS, now)]

\* One step of the /metrics handler between two awaits of the network, on
\* st = [r, cache]; now is Date.now(), avKey whether ALPHA_VANTAGE_KEY is set.
Step(st, now, avKey) ==
  LET r == st.r
  IN CASE r.pc = "loop" ->
            \* part_004:26-33: the next position, or the totals and the answer
            IF r.i > Len(r.pf)
            THEN [st EXCEPT !.r = respond(r, jsonOk(r.rows))]
            ELSE [st EXCEPT !.r.pc = "memo", !.r.call = [NoCall EXCEPT !.name = "daily"]]
       [] r.pc = "memo" ->
            \* metrics.js:81-89: the memo wrapper is entered
            LET name == r.call.name
                key == r.pf[r.i].ticker
            IN IF memoHit(st.cache[name], key, now, Ttl(name))
               THEN [st EXCEPT !.r.pc = "got", !.r.val = st.cache[name][key].v]
               ELSE [st EXCEPT !.r.pc = "try",
                               !.r.call = [NoCall EXCEPT !.name = name, !.key = key,
                                             !.now = now, !.vi = 1,
                                             !.phase = IF name = "daily" THEN "adj"
                                                       ELSE "monthly"]]
       [] r.pc = "try" -> [st EXCEPT !.r = avSend(r, avKey)]
       [] r.pc = "got" ->
            \* metrics.js:249-261: analyzeTicker has the value of a fetcher
            IF r.call.name = "daily"
            THEN gotDaily(st, analyzeFromDaily(r.val.series, r.val.adjusted, TodayAt(now)), now)
            ELSE gotMonthly(st, analyzeFromMonthly(r.val.series, TodayAt(now)), now)
       [] OTHER -> st

\* the handler runs until it awaits the network or has answered
RECURSIVE Run(_, _, _)
Run(st, now, avKey) ==
  IF st.r.pc \in {"net", "done"} THEN st ELSE Run(Step(st, now, avKey), now, avKey)

\* metrics.js:58-75, 131-134, 145-147, 168-170: the pending request of r
\* comes back with outcome o, which the log of the call's requests records
onResponse(st, o) ==
  LET r == [st.r EXCEPT !.call.sent = [@ EXCEPT ![Len(@)].answer = o.kind]]
      c == r.call
      res == avResult(o)
  IN IF ~res.ok THEN [st EXCEPT !.r = attemptFailed(r, res.error)]
     ELSE IF ~o.hasSeries
     THEN [st EXCEPT !.r = attemptFailed(r, seriesError(c.name, c.phase))]
     ELSE LET v == [symbol |-> avSymbolVariants(c.key)[c.vi], series |-> o.series,
                    adjusted |-> c.phase = "adj"]
          IN [st EXCEPT !.cache[c.name] = memoStore(@, c.key, v, c.now),
                        !.r = [r EXCEPT !.pc = "got", !.val = v]]

(* ------------------------------ configuration ---------------------------- *)
Secret == "s3cret"
\* an Authorization header: none (or not a Bearer one), or 'Bearer ' + token
BearerTokens == {"absent", "", Secret, "wrong"}
\* the key query parameter: none, or its value
QueryKeys == {"absent", Secret, "wrong"}

AAA == <<"AAA">>
BBB == <<"BBB">>
CCC == <<"CCC">>
XTO == <<"X", ".", "TO">>
Position(ticker, shares, avgPrice) ==
  [ticker |-> ticker, shares |-> shares, avgPrice |-> avgPrice]
Map(entries) == [kind |-> "map", entries |-> entries]

Portfolios ==
  { [kind |-> "missing", entries |-> <<>>],
    [kind |-> "badjson", entries |-> <<>>],
    Map(<<>>),
    Map(<<Position(AAA, Num(50), Rat(241, 2))>>),
    Map(<<Position(XTO, S2("2", "0"), Num(200))>>),
    Map(<<Position(AAA, Num(50), Rat(241, 2)), Position(BBB, Num(20), Num(200)),
          Position(CCC, Num(10), Num(30))>>),
    Map(<<Position(AAA, Num(50), Rat(241, 2)), Position(BBB, Num(0), Num(200))>>),
    Map(<<Position(AAA, Num(50), Str(<<"a", "b", "c">>))>>),
    Map(<<Position(AAA, Num(50), Num(10)), Position(BBB, Undef, Num(200))>>),
    Map(<<Position(AAA, Num(-5), Num(-10))>>) }

P1 == Map(<<Position(AAA, Num(50), Rat(241, 2))>>)
P3 == Map(<<Position(AAA, Num(50), Rat(241, 2)), Position(BBB, Num(20), Num(200)),
            Position(CCC, Num(10), Num(30))>>)
Env(key, avKey, pf) == [METRICS_KEY |-> key, ALPHA_VANTAGE_KEY |-> avKey, PORTFOLIO_JSON |-> pf]

\* the configurations the server is started with
Envs ==
  {Env(Secret, TRUE, pf) : pf \in Portfolios}
    \cup {Env(Secret, FALSE, P1), Env(Secret, FALSE, P3), Env("", TRUE, P1)}

(* -------------------------------- requests ------------------------------- *)
MaxInFlight == 1
MaxRequests == 2
MaxTicks == 1
Slots == 1..MaxInFlight

\* part_004:14-15: the token of a request: the Bearer header when there is
\* one, else the key query parameter, else ''
presentedToken(auth) ==
  IF auth.bearer # "absent" THEN auth.bearer
  ELSE IF auth.query # "absent" THEN auth.query ELSE ""

\* a key check that lets a request without any token through
requireKeyLax(key, auth) ==
  IF key = "" THEN 500
  ELSE IF presentedToken(auth) # "" /\ presentedToken(auth) # key THEN 401 ELSE 0

\* part_004:11-18: 0 for next(), or the status of the rejection
requireKey(key, auth) ==
  IF key = "" THEN 500
  ELSE IF presentedToken(auth) # key THEN 401 ELSE 0

entered(r0, pf) ==
  IF ~pf.ok THEN respond(r0, jsonError(pf.error))
  ELSE [r0 EXCEPT !.pc = "loop", !.pf = pf.entries, !.i = 1]

\* part_004:22-25, 40-42: the handler is entered: loadAll, then the loop
enter(route, auth, portfolioJson) ==
  entered([FreeReq EXCEPT !.route = route, !.auth = auth, !.ran = TRUE],
          loadPortfolio(portfolioJson))

\* the request of slot s and the caches after a run of its handler
commit(s, st) ==
  /\ reqs' = [reqs EXCEPT ![s] = st.r]
  /\ cache' = st.cache

\* A request for /metrics or /metrics.html arrives on a free connection.
Receive(s, route, auth) ==
  /\ reqs[s].pc \in {"free", "done"}
  /\ served < MaxRequests
  /\ served' = served + 1
  /\ LET status == requireKey(env.METRICS_KEY, auth)
     IN IF status # 0
        THEN /\ reqs' = [reqs EXCEPT ![s] =
                   [FreeReq EXCEPT !.pc = "done", !.route = route, !.auth = auth,
                                   !.resp = [NoResp EXCEPT !.status = status, !.type = "text"]]]
             /\ UNCHANGED cache
        ELSE commit(s, Run([r |-> enter(route, auth, env.PORTFOLIO_JSON), cache |-> cache],
                           clock, env.ALPHA_VANTAGE_KEY))
  /\ UNCHANGED <<env, clock, calls, calc>>

\* The provider answers the pending request of slot s.
ProviderRespond(s, o) ==
  /\ reqs[s].pc = "net"
  /\ commit(s, Run(onResponse([r |-> [reqs[s] EXCEPT !.auth = Forgotten], cache |-> cache], o),
                   clock, env.ALPHA_VANTAGE_KEY))
  /\ UNCHANGED <<env, clock, served, calls, calc>>

\* Time passes, six hours at a time.
Tick ==
  /\ clock + TtlDaily <= MaxTicks * TtlDaily
  /\ clock' = clock + TtlDaily
  /\ UNCHANGED <<env, cache, reqs, served, calls, calc>>

\* the pending fetch of slot s resolves or rejects, with one of the answers
\* the provider has for its request
Answered(s) ==
  \E o \in AvOutcomes(avFunction(reqs[s].call.name, reqs[s].call.phase),
                      IF reqs[s].pc = "net"
                      THEN avSymbolVariants(reqs[s].call.key)[reqs[s].call.vi]
                      ELSE <<>>) :
    ProviderRespond(s, o)

Auths == [bearer : BearerTokens, query : QueryKeys]

Init ==
  /\ env \in Envs
  /\ clock = 0
  /\ cache = [name \in {"daily", "monthly"} |-> EmptyObj]
  /\ reqs = [s \in Slots |-> FreeReq]
  /\ served = 0
  /\ calls = <<>>
  /\ calc = <<>>

Next ==
  \/ \E s \in Slots, route \in {"metrics", "html"}, auth \in Auths : Receive(s, route, auth)
  \/ \E s \in Slots : Answered(s)
  \/ Tick

Spec == Init /\ [][Next]_vars

\* ENABLED <<Answered(s)>>_vars, computed: slot s awaits the provider, which
\* has an answer that changes the state
AnswerEnabled(s) ==
  /\ reqs[s].pc = "net"
  /\ \E o \in AvOutcomes(avFunction(reqs[s].call.name, reqs[s].call.phase),
                         avSymbolVariants(reqs[s].call.key)[reqs[s].call.vi]) :
       Run(onResponse([r |-> [reqs[s] EXCEPT !.auth = Forgotten], cache |-> cache], o),
           clock, env.ALPHA_VANTAGE_KEY) # [r |-> reqs[s], cache |-> cache]

\* Every provider fetch eventually resolves or rejects: the weak fairness
\* WF_vars(Answered(s)), written out with AnswerEnabled(s) for its ENABLED.
FetchSettles(s) == []<>(~AnswerEnabled(s)) \/ []<><<Answered(s)>>_vars

SpecLive == Init /\ [][Next]_vars /\ \A s \in Slots : FetchSettles(s)

(* ------------------------- the calculations alone ------------------------ *)
\* The pure functions, applied to inputs chosen freely: SpecCalc.

\* metrics.js:244-312 analyzeTicker once both fetchers have answered: the
\* dividends of the daily bundle, or those of the monthly series without
rowFromDaily(t, d, monthlySeries, today) ==
  IF ~Truthy(d.ttmDivPS)
  THEN metricsRow(t, t.ticker, "", d.currentPrice, d.startPrice,
                  analyzeFromMonthly(monthlySeries, today).byYear,
                  analyzeFromMonthly(monthlySeries, today).ttmDivPS, today)
  ELSE metricsRow(t, t.ticker, "", d.currentPrice, d.startPrice, d.byYear, d.ttmDivPS, today)

analyzeTicker(t, daily, adjusted, monthlySeries, today) ==
  rowFromDaily(t, analyzeFromDaily(daily, adjusted, today), monthlySeries, today)

\* part_002:130-132: q is the first quote of the answer, [price, close], or
\* undefined (both fields then read undefined through ?.)
fmpQuotePrice(q) == Number(Coalesce(Coalesce(q.price, q.close), Null))

\* part_002:198-199: b is the bar found on or after START_DATE, if any
fmpStartPrice(b) ==
  IF b = <<>> THEN Number(Null)
  ELSE Number(Coalesce(Coalesce(b[1].adjClose, b[1].close), Null))

fmpEvent(ev) == [date |-> ev.date, div |-> toNum(ev.dividend)]

\* part_002:208-230 analyzeDividends, over events with readable dates
analyzeDividends(divEvents, today) ==
  monthlyResult(DivLoop([i \in 1..Len(divEvents) |-> fmpEvent(divEvents[i])],
                        Minus365(today), PositiveDiv))

fmpRow(t, currPx, startPx, divs, today) ==
  metricsRow(t, t.ticker, "", currPx, startPx, divs.byYear, divs.ttmDivPS, today)

\* part_002:244-294 analyzeTicker of the FMP revision, once Promise.all has
\* the quote, the dividends and the start bar
analyzeTickerFmp(t, q, divEvents, b, today) ==
  fmpRow(t, fmpQuotePrice(q), fmpStartPrice(b), analyzeDividends(divEvents, today), today)

\* part_003:126: price: toNum(q?.price)
fmpQuotePrice3(q) == toNum(q.price)

\* part_003:157-158
fmpStartPrice3(b) ==
  IF b = <<>> THEN toNum(Null)
  ELSE toNum(Coalesce(Coalesce(b[1].adjClose, b[1].close), Null))

\* part_003:201-251 analyzeTicker, once Promise.all has the three values
analyzeTickerFmp3(t, q, divEvents, b, today) ==
  fmpRow(t, fmpQuotePrice3(q), fmpStartPrice3(b), analyzeDividends(divEvents, today), today)

\* a daily series with a negative and an unreadable price
DailyOdd ==
  << Bar(Date(2023, 1), S1("4"), S1("4"), S1("0")),
     Bar(Date(2025, 199), Str(<<"a", "b", "c">>), Str(<<"-", "4">>), S1("1")) >>

CalcToday == TodayAt(0)
CalcPositions == { Position(AAA, Num(50), Rat(241, 2)), Position(BBB, Num(-5), Num(-10)) }
CalcDaily == { [series |-> DailyPaying, adjusted |-> TRUE],
               [series |-> DailyNoDiv, adjusted |-> TRUE],
               [series |-> DailyRaw, adjusted |-> FALSE],
               [series |-> DailyOdd, adjusted |-> TRUE] }
CalcMonthly == { MonthlyPaying }
CalcQuotes == { [price |-> Undef, close |-> Undef], [price |-> Num(150), close |-> Undef],
                [price |-> Undef, close |-> Num(9)],
                [price |-> Str(<<"a", "b", "c">>), close |-> Num(9)] }
CalcStartBars == { <<>>, <<[adjClose |-> Num(100), close |-> Num(110)]>> }
CalcEvents == { <<[date |-> Date(2025, 100), dividend |-> Num(2)],
                  [date |-> Date(2024, 100), dividend |-> Num(-1)]>> }
\* the values a numeric field can hold
CalcArgs == { Zero, Num(2), Num(-2), Rat(1, 2), Num(150), Inf(1), Inf(-1), NaN, Null, Undef }

MaxCalcRows == 2

CalcIdle == [op |-> "idle", a |-> Undef, b |-> Undef, out |-> Undef,
             t |-> Position(<<>>, Undef, Undef), rows |-> <<>>, totals |-> aggregate(<<>>)]

InitCalc ==
  /\ env = Env(Secret, TRUE, P1)
  /\ clock = 0
  /\ cache = [name \in {"daily", "monthly"} |-> EmptyObj]
  /\ reqs = [s \in Slots |-> FreeReq]
  /\ served = 0
  /\ calls = <<>>
  /\ calc = CalcIdle

\* safeDiv is applied to a and b
CalcSafeDiv(a, b) ==
  /\ calc' = [CalcIdle EXCEPT !.op = "safeDiv", !.a = a, !.b = b, !.out = safeDiv(a, b)]
  /\ UNCHANGED <<env, clock, cache, reqs, served, calls>>

\* rows.push(row), for the row of position t
calcPush(op, t, row) ==
  calc' = [CalcIdle EXCEPT !.op = op, !.t = t, !.out = row,
                           !.rows = IF Len(calc.rows) < MaxCalcRows
                                    THEN Append(calc.rows, row) ELSE <<row>>]

\* analyzeTicker of metrics.js computes the row of position t
CalcRow(t, d, m) ==
  /\ calcPush("row", t, analyzeTicker(t, d.series, d.adjusted, m, CalcToday))
  /\ UNCHANGED <<env, clock, cache, reqs, served, calls>>

\* analyzeTicker of the FMP revision computes the row of position t
CalcRowFmp(t, q, evs, b) ==
  /\ calcPush("rowFmp", t, analyzeTickerFmp(t, q, evs, b, CalcToday))
  /\ UNCHANGED <<env, clock, cache, reqs, served, calls>>

\* aggregate is applied to the rows computed so far
CalcTotals ==
  /\ calc.op \in {"row", "rowFmp"}
  /\ calc' = [calc EXCEPT !.op = "totals", !.totals = aggregate(calc.rows)]
  /\ UNCHANGED <<env, clock, cache, reqs, served, calls>>

NextCalc ==
  \/ \E a \in CalcArgs, b \in CalcArgs : CalcSafeDiv(a, b)
  \/ \E t \in CalcPositions, d \in CalcDaily, m \in CalcMonthly : CalcRow(t, d, m)
  \/ \E t \in {Position(AAA, Num(50), Rat(241, 2))}, q \in CalcQuotes, evs \in CalcEvents, b \in CalcStartBars :
       CalcRowFmp(t, q, evs, b)
  \/ CalcTotals

SpecCalc == InitCalc /\ [][NextCalc]_vars

(* --------------------------- the memoizer alone -------------------------- *)
\* The two memoized fetchers of metrics.js under calls that may overlap, the
\* fetched values abstracted to version numbers: SpecMemo.
MaxCalls == 2
MaxVersions == 2
MaxMemoTicks == 2
Callers == 1..MaxCalls
Versions == 1..MaxVersions
MemoNames == {"daily", "monthly"}
\* the calls made: fetchDailyBundle for both tickers, fetchMonthlyAdjusted
\* for the first
MemoTargets == {<<"daily", AAA>>, <<"daily", BBB>>, <<"monthly", AAA>>}
\* half the shorter TTL: an entry is found fresh after one step, expired
\* after two
MemoStep == TtlDaily \div 2

\* a call of a memoized fetcher: seen is the entry cache.get(key) found when
\* the call began, fetched what fn resolved with, stored the entry the call
\* set, ret what the call returned
IdleCall == [pc |-> "idle", name |-> "", key |-> <<>>, now |-> 0, fnCalls |-> 0,
             seen |-> <<>>, fetched |-> 0, stored |-> <<>>, ret |-> 0]

entryOf(m, key) == IF key \in DOMAIN m THEN <<m[key]>> ELSE <<>>

\* metrics.js:81-89: the wrapper is called: now and the entry are read, and
\* on a hit the cached value is returned, else fn(key) is called and awaited
memoCall(m, name, key, now) ==
  IF memoHit(m, key, now, Ttl(name))
  THEN [IdleCall EXCEPT !.pc = "returned", !.name = name, !.key = key, !.now = now,
                        !.seen = entryOf(m, key), !.ret = m[key].v]
  ELSE [IdleCall EXCEPT !.pc = "fetching", !.name = name, !.key = key, !.now = now,
                        !.seen = entryOf(m, key), !.fnCalls = 1]

\* metrics.js:89-92: fn resolved with v: after cache.set the call returns v
memoReturn(call, v, m) ==
  [call EXCEPT !.pc = "returned", !.fetched = v, !.stored = entryOf(m, call.key), !.ret = v]

InitMemo ==
  /\ env = Env(Secret, TRUE, P1)
  /\ clock = 0
  /\ cache = [name \in MemoNames |-> EmptyObj]
  /\ reqs = [s \in Slots |-> FreeReq]
  /\ served = 0
  /\ calls = [c \in Callers |-> IdleCall]
  /\ calc = <<>>

\* a wrapper with a single-flight lock: a call that finds a fetch of the
\* same fetcher and key in flight waits for it and starts none of its own
MemoCallSingleFlight(c, name, key) ==
  /\ calls[c].pc # "fetching"
  /\ calls' = [calls EXCEPT ![c] =
                 IF \E d \in Callers \ {c} :
                      calls[d].pc = "fetching" /\ calls[d].name = name /\ calls[d].key = key
                 THEN [memoCall(cache[name], name, key, clock) EXCEPT !.fnCalls = 0]
                 ELSE memoCall(cache[name], name, key, clock)]
  /\ UNCHANGED <<env, clock, cache, reqs, served, calc>>

\* caller c calls the memoized fetcher name with key
MemoCall(c, name, key) ==
  /\ calls[c].pc # "fetching"
  /\ calls' = [calls EXCEPT ![c] = memoCall(cache[name], name, key, clock)]
  /\ UNCHANGED <<env, clock, cache, reqs, served, calc>>

\* the fetch of caller c resolves with v
FnResolve(c, v) ==
  /\ calls[c].pc = "fetching"
  /\ cache' = [cache EXCEPT ![calls[c].name] = memoStore(@, calls[c].key, v, calls[c].now)]
  /\ calls' = [calls EXCEPT ![c] = memoReturn(@, v, cache'[calls[c].name])]
  /\ UNCHANGED <<env, clock, reqs, served, calc>>

\* a wrapper that remembers a failed fetch: the rejection is stored as the
\* entry of the key
FnRejectStored(c) ==
  /\ calls[c].pc = "fetching"
  /\ cache' = [cache EXCEPT ![calls[c].name] = memoStore(@, calls[c].key, 0, calls[c].now)]
  /\ calls' = [calls EXCEPT ![c].pc = "threw"]
  /\ UNCHANGED <<env, clock, reqs, served, calc>>

\* the fetch of caller c rejects: the call rejects, nothing is stored
FnReject(c) ==
  /\ calls[c].pc = "fetching"
  /\ calls' = [calls EXCEPT ![c].pc = "threw"]
  /\ UNCHANGED <<env, clock, cache, reqs, served, calc>>

\* Time passes, three hours at a time.
TickMemo ==
  /\ clock + MemoStep <= MaxMemoTicks * MemoStep
  /\ clock' = clock + MemoStep
  /\ UNCHANGED <<env, cache, reqs, served, calls, calc>>

NextMemo ==
  \/ \E c \in Callers, tg \in MemoTargets : MemoCall(c, tg[1], tg[2])
  \/ \E c \in Callers, v \in Versions : FnResolve(c, v)
  \/ \E c \in Callers : FnReject(c)
  \/ TickMemo

SpecMemo == InitMemo /\ [][NextMemo]_vars

(* ------------------------- single functions alone ------------------------ *)
\* dgr, the dividend aggregations, analyzeTicker and aggregate, each applied
\* once to an input chosen freely: SpecPure.

\* an optional value: <<>> or <<v>>
Opt(S) == {<<>>} \cup {<<v>> : v \in S}
PutOpt(obj, key, o) == IF o = <<>> THEN obj ELSE Put(obj, key, o[1])

\* the annual totals a dividend aggregation can leave in the buckets of the
\* years a window reads, and of the year between them
DgrWindows == {3, 5, 10}
DgrTodays == {Date(2024, 10), Date(2025, 200)}
DgrTotals == {Num(1), Rat(1331, 1000), Num(2), Num(32), Num(1024)}
\* a start total that is not positive, which the guard of dgr provides for
DgrNonPositive == {Zero, Num(-1)}
dgrByYear(ly, n, end, start, between) ==
  PutOpt(PutOpt(PutOpt(EmptyObj, ly - n, start), ly - 1, between), ly, end)

\* byYear without the buckets of the other years
onlyYears(byYear, years) == [y \in (DOMAIN byYear) \cap years |-> byYear[y]]

\* the inputs of dgr: byYear, n, and the day it is called
DgrInputs ==
  { [fn |-> "dgr", byYear |-> dgrByYear(lastFullCalendarYear(today), n, end, start, between),
     n |-> n, today |-> today] :
      today \in DgrTodays, n \in DgrWindows, end \in Opt(DgrTotals),
      start \in Opt(DgrTotals \cup DgrNonPositive), between \in Opt({Num(8)}) }

\* dividend series: up to MaxEvents records, each a date and the provider's
\* amount: positive, zero, negative or not a number
MaxEvents == 3
DivDates == {Date(2025, 100), Date(2024, 250), Date(2024, 100)}
DivAmounts == {S1("2"), S1("0"), Str(<<"-", "1">>), Str(<<"a", "b", "c">>)}
DivBars == {Bar(date, S1("5"), S1("5"), amt) : date \in DivDates, amt \in DivAmounts}
DivSeries == UNION {[1..k -> DivBars] : k \in 0..MaxEvents}
\* the keys of a time series object are distinct dates
DistinctDates(series) ==
  \A i \in 1..Len(series) : \A j \in 1..Len(series) : i # j => series[i].date # series[j].date

\* the events whose amount is a number above zero
PaysPositive(b) == JsGt(Number(b.div), Zero)
dropNonPositive(series) == FilterSeq(series, PaysPositive)

\* the array _fetchDividends hands to analyzeDividends for a series
asEvents(series) == [i \in 1..Len(series) |-> [date |-> series[i].date, dividend |-> series[i].div]]

\* byYear and ttmDivPS of a series, by the aggregation of kind: the loop of
\* analyzeFromDaily (adjusted), analyzeFromMonthly, or analyzeDividends
divTotals(kind, series, today) ==
  CASE kind = "daily" ->
         [byYear |-> analyzeFromDaily(series, TRUE, today).byYear,
          ttmDivPS |-> analyzeFromDaily(series, TRUE, today).ttmDivPS]
    [] kind = "monthly" -> analyzeFromMonthly(series, today)
    [] OTHER -> analyzeDividends(asEvents(series), today)

DivInputs ==
  { [fn |-> "dividends", kind |-> kind, series |-> series, today |-> CalcToday] :
      kind \in {"daily", "monthly"}, series \in {x \in DivSeries : DistinctDates(x)} }
    \cup { [fn |-> "dividends", kind |-> "events", series |-> series, today |-> CalcToday] :
             series \in DivSeries }

\* one ticker: what the provider answers, a position, and the revision of
\* analyzeTicker that computes the row ("av" metrics.js, "fmp2" part_002,
\* "fmp3" part_003)
RowPositions == {Position(AAA, Num(50), Rat(241, 2)), Position(BBB, Num(3), Num(10))}
RowPrices == {Str(<<"1", "5", "0">>), Str(<<"1", "0", "0">>), S1("0"), Str(<<"-", "4">>), Undef}
RowDates == <<Date(2022, 300), Date(2023, 2), Date(2025, 150)>>
RowDivs == <<S1("0"), S1("0"), S1("2")>>
\* the bar of the i-th date at price o[1], or no bar for o = <<>>
barAt(i, o, adjusted) ==
  IF o = <<>> THEN <<>>
  ELSE IF adjusted THEN <<Bar(RowDates[i], o[1], o[1], RowDivs[i])>>
  ELSE <<Bar(RowDates[i], o[1], Undef, Undef)>>
RowSeries(adjusted) ==
  {barAt(1, f[1], adjusted) \o barAt(2, f[2], adjusted) \o barAt(3, f[3], adjusted) :
     f \in [1..3 -> Opt(RowPrices)]}
RowQuotes == {[price |-> p, close |-> c] : p \in {Undef, Num(150), Str(<<"a", "b", "c">>)},
                                            c \in {Undef, Num(9)}}
RowStartBars == {<<>>} \cup {<<[adjClose |-> a, close |-> c]>> :
                               a \in {Undef, Num(100), Zero, Num(-4)}, c \in {Undef, Num(110)}}
RowInputs ==
  { [fn |-> "row", rev |-> "av", t |-> t, series |-> series, adjusted |-> adjusted,
     monthly |-> MonthlyPaying, today |-> CalcToday] :
      t \in RowPositions, adjusted \in BOOLEAN, series \in RowSeries(TRUE) \cup RowSeries(FALSE) }
    \cup { [fn |-> "row", rev |-> rev, t |-> t, quote |-> q, bar |-> b, events |-> evs,
            today |-> CalcToday] :
             rev \in {"fmp2", "fmp3"}, t \in RowPositions, q \in RowQuotes,
             b \in RowStartBars, evs \in CalcEvents }

rowOf(in) ==
  CASE in.rev = "av" -> analyzeTicker(in.t, in.series, in.adjusted, in.monthly, in.today)
    [] in.rev = "fmp2" -> analyzeTickerFmp(in.t, in.quote, in.events, in.bar, in.today)
    [] OTHER -> analyzeTickerFmp3(in.t, in.quote, in.events, in.bar, in.today)

\* up to MaxAggRows rows as analyzeTicker of metrics.js computes them: with
\* and without a current price, with no, a positive and a negative baseline
MaxAggRows == 2
AggSeries ==
  { <<>>,
    barAt(1, <<Str(<<"1", "5", "0">>)>>, TRUE),
    barAt(2, <<Str(<<"1", "0", "0">>)>>, TRUE) \o barAt(3, <<Str(<<"1", "5", "0">>)>>, TRUE),
    barAt(2, <<Str(<<"-", "4">>)>>, TRUE) \o barAt(3, <<Str(<<"1", "5", "0">>)>>, TRUE),
    barAt(2, <<Str(<<"1", "0", "0">>)>>, TRUE) \o barAt(3, <<Undef>>, TRUE) }
AggRows ==
  { analyzeTicker(t, series, TRUE, MonthlyPaying, CalcToday) :
      t \in RowPositions, series \in AggSeries }
AggInputs ==
  { [fn |-> "aggregate", rows |-> rows] : rows \in UNION {[1..k -> AggRows] : k \in 0..MaxAggRows} }

\* _fetchDailyBundle of one ticker against answers given in advance,
\* answers[i] to its i-th request: the handler of a one-position portfolio
\* is run from request to request and the requests are logged
RECURSIVE dailyAttempts(_, _, _)
dailyAttempts(st, answers, log) ==
  IF st.r.pc = "net" /\ st.r.call.name = "daily" /\ Len(log) < Len(answers)
  THEN dailyAttempts(Run(onResponse(st, answers[Len(log) + 1]), 0, TRUE), answers,
                     Append(log, [fn |-> st.r.call.sent[Len(st.r.call.sent)].fn,
                                  symbol |-> st.r.call.sent[Len(st.r.call.sent)].symbol]))
  ELSE [log |-> log, st |-> st]

\* what came of the call: the value it returned (and memoizeTTL stored), or
\* the error it threw (the error row of the handler)
dailyOutcome(ticker, tr) ==
  [log |-> tr.log,
   pending |-> tr.st.r.pc = "net" /\ tr.st.r.call.name = "daily",
   returned |-> IF ticker \in DOMAIN tr.st.cache.daily THEN <<tr.st.cache.daily[ticker].v>> ELSE <<>>,
   threw |-> IF tr.st.r.pc = "done" /\ Len(tr.st.r.resp.perTicker) = 1
                /\ ~NotErrorRow(tr.st.r.resp.perTicker[1])
             THEN <<tr.st.r.resp.perTicker[1].error>> ELSE <<>>]

fetchDailyTrace(ticker, answers) ==
  dailyOutcome(ticker,
    dailyAttempts(Run([r |-> enter("metrics", NoAuth, Map(<<Position(ticker, Num(1), Num(1))>>)),
                       cache |-> [name \in {"daily", "monthly"} |-> EmptyObj]], 0, TRUE),
                  answers, <<>>))

SRU == <<"SRU", "-", "UN", ".", "TO">>
TraceTickers == {AAA, XTO, SRU}
DailyAnswers == {Outcome("note", FALSE, <<>>), Outcome("http", FALSE, <<>>),
                 Outcome("json", FALSE, <<>>), Outcome("json", TRUE, DailyPaying)}
TraceInputs ==
  { [fn |-> "fetchDaily", ticker |-> in[1], answers |-> in[2]] :
      in \in UNION { {<<ticker, answers>> :
                        answers \in [1..(2 * Len(avSymbolVariants(ticker))) -> DailyAnswers]} :
                     ticker \in TraceTickers } }

\* part_002:73-95: fmp() throws without FMP_API_KEY, on a status that is not
\* 2xx and on a body that is not JSON; f is what the request comes back with
fmpResult(f) ==
  CASE f.kind = "nokey" -> [ok |-> FALSE, error |-> "FMP_API_KEY missing"]
    [] f.kind = "http" -> [ok |-> FALSE, error |-> "FMP http status"]
    [] f.kind = "notjson" -> [ok |-> FALSE, error |-> "FMP response not JSON"]
    [] OTHER -> [ok |-> TRUE, error |-> ""]

PositiveDividend(x) == JsGt(x.dividend, Zero)

\* part_002:151-154: the events of the list with a dividend above zero
fmpDividendRows(list) ==
  FilterSeq([i \in 1..Len(list) |->
               [date |-> list[i].date, dividend |-> Number(list[i].dividend)]],
            PositiveDividend)

\* part_002:177-183: the months with a dividend, from twelve years ago to today
InWindow(x, today) ==
  /\ JsGt(x.dividend, Zero)
  /\ DayNo(x.date) > DayNo(Date(today.y - 12, today.doy)) - 1
  /\ DayNo(x.date) < DayNo(today) + 1
avDividendRows(series, today) ==
  LET all == [i \in 1..Len(series) |->
                [date |-> series[i].date,
                 dividend |-> Number(OrElse(series[i].div, Zero))]]
      Keep(x) == InWindow(x, today)
  IN FilterSeq(all, Keep)

\* part_002:163-186: the Alpha Vantage fallback; a is what its request
\* comes back with
fetchDividendsAV(a, today) ==
  IF a.kind = "nokey"
  THEN [ok |-> FALSE, error |-> "ALPHA_VANTAGE_KEY missing", rows |-> <<>>, sent |-> <<>>]
  ELSE IF a.kind = "note"
  THEN [ok |-> FALSE, error |-> "AlphaVantage limit/info", rows |-> <<>>, sent |-> <<"av">>]
  ELSE IF ~a.hasSeries
  THEN [ok |-> FALSE, error |-> "AlphaVantage missing Monthly Adjusted Time Series",
        rows |-> <<>>, sent |-> <<"av">>]
  ELSE [ok |-> TRUE, error |-> "", rows |-> avDividendRows(a.series, today), sent |-> <<"av">>]

\* part_002:142-160 _fetchDividends: the FMP request, and the fallback in
\* the catch; sent logs the requests made
fetchDividends(f, a, today) ==
  LET first == IF f.kind = "nokey" THEN <<>> ELSE <<"fmp">>
  IN IF fmpResult(f).ok
     THEN [ok |-> TRUE, error |-> "", sent |-> first,
           rows |-> fmpDividendRows(IF f.isArray THEN f.list ELSE <<>>)]
     ELSE [fetchDividendsAV(a, today) EXCEPT !.sent = first \o @]

FmpAnswers ==
  { [kind |-> k, isArray |-> FALSE, list |-> <<>>] : k \in {"nokey", "http", "notjson", "json"} }
    \cup { [kind |-> "json", isArray |-> TRUE, list |-> l] : l \in {<<>>} \cup CalcEvents }
AvAnswers ==
  { Outcome(k, FALSE, <<>>) : k \in {"nokey", "note", "json"} }
    \cup { Outcome("json", TRUE, MonthlyPaying) }
DivFetchInputs ==
  { [fn |-> "fetchDividends", fmp |-> f, av |-> a, today |-> CalcToday] :
      f \in FmpAnswers, a \in AvAnswers }

PureInputs ==
  DgrInputs \cup DivInputs \cup RowInputs \cup AggInputs \cup TraceInputs \cup DivFetchInputs

InitPure ==
  /\ env = Env(Secret, TRUE, P1)
  /\ clock = 0
  /\ cache = [name \in {"daily", "monthly"} |-> EmptyObj]
  /\ reqs = [s \in Slots |-> FreeReq]
  /\ served = 0
  /\ calls = <<>>
  /\ calc \in {[op |-> "input", arg |-> in, out |-> Undef, alt |-> Undef] : in \in PureInputs}

\* dgr is applied to the input; alt is its result for byYear with only the
\* two years of the window
PureDgr ==
  /\ calc.op = "input" /\ calc.arg.fn = "dgr"
  /\ calc' = [op |-> "dgr",
              arg |-> [byYear |-> calc.arg.byYear, n |-> calc.arg.n,
                       ly |-> lastFullCalendarYear(calc.arg.today)],
              out |-> dgr(calc.arg.byYear, calc.arg.n, calc.arg.today),
              alt |-> dgr(onlyYears(calc.arg.byYear,
                                    {lastFullCalendarYear(calc.arg.today),
                                     lastFullCalendarYear(calc.arg.today) - calc.arg.n}),
                          calc.arg.n, calc.arg.today)]
  /\ UNCHANGED <<env, clock, cache, reqs, served, calls>>

\* the dividend aggregation is applied to the series; alt is its result
\* for the series without the events that are not positive
PureDividends ==
  /\ calc.op = "input" /\ calc.arg.fn = "dividends"
  /\ calc' = [op |-> "dividends", arg |-> calc.arg,
              out |-> divTotals(calc.arg.kind, calc.arg.series, calc.arg.today),
              alt |-> divTotals(calc.arg.kind, dropNonPositive(calc.arg.series),
                                calc.arg.today)]
  /\ UNCHANGED <<env, clock, cache, reqs, served, calls>>

\* analyzeTicker computes the row of one position from the provider's answers
PureRow ==
  /\ calc.op = "input" /\ calc.arg.fn = "row"
  /\ calc' = [op |-> "row", arg |-> calc.arg, out |-> rowOf(calc.arg), alt |-> Undef]
  /\ UNCHANGED <<env, clock, cache, reqs, served, calls>>

\* aggregate is applied to the rows
PureAggregate ==
  /\ calc.op = "input" /\ calc.arg.fn = "aggregate"
  /\ calc' = [op |-> "aggregate", arg |-> calc.arg, out |-> aggregate(calc.arg.rows),
              alt |-> Undef]
  /\ UNCHANGED <<env, clock, cache, reqs, served, calls>>

\* _fetchDailyBundle is run against the answers
PureFetchDaily ==
  /\ calc.op = "input" /\ calc.arg.fn = "fetchDaily"
  /\ calc' = [op |-> "fetchDaily", arg |-> calc.arg,
              out |-> fetchDailyTrace(calc.arg.ticker, calc.arg.answers), alt |-> Undef]
  /\ UNCHANGED <<env, clock, cache, reqs, served, calls>>

\* _fetchDividends of the FMP revision is run against the two answers
PureFetchDividends ==
  /\ calc.op = "input" /\ calc.arg.fn = "fetchDividends"
  /\ calc' = [op |-> "fetchDividends", arg |-> calc.arg,
              out |-> fetchDividends(calc.arg.fmp, calc.arg.av, calc.arg.today),
              alt |-> Undef]
  /\ UNCHANGED <<env, clock, cache, reqs, served, calls>>

NextPure ==
  \/ PureDgr
  \/ PureDividends
  \/ PureRow
  \/ PureAggregate
  \/ PureFetchDaily
  \/ PureFetchDividends

SpecPure == InitPure /\ [][NextPure]_vars

(* --------------------------------- claims -------------------------------- *)
IsErrorRow(row) == "error" \in DOMAIN row
CompleteIdx(rows) == {i \in 1..Len(rows) : ~IsErrorRow(rows[i])}
DerivedFields ==
  {"marketValue", "currentYield", "yieldOnCost", "dgr3", "dgr5", "dgr10",
   "priceReturnAbs", "priceReturnPct", "annualDivIncome", "monthlyDivIncome"}
RowFields ==
  DerivedFields \cup {"ticker", "name", "currency", "shares", "avgPrice", "currentPrice",
                      "startPrice", "ttmDivPS"}
TotalFields == {"marketValue", "pricePnL", "annualDivIncome", "priceReturnPct",
                "monthlyDivIncome"}

\* the sum of field f over the rows without an error, an absent value as 0
SumComplete(rows, f) ==
  LET F[i \in 0..Len(rows)] ==
        IF i = 0 THEN Zero
        ELSE IF IsErrorRow(rows[i]) THEN F[i - 1]
        ELSE JsAdd(F[i - 1], Coalesce(Field(rows[i], f), Zero))
  IN F[Len(rows)]

\* C1: a /metrics request whose portfolio loaded is answered 200 with one
\* row per loaded position, at the position's place: a failed analysis
\* leaves an error row {ticker, error} there and the positions after it are
\* still analyzed; the totals count and sum the rows without an error only
\* (for three positions with one failure: three rows, totals from the two
\* complete ones).
C1_ErrorRowAndContinue ==
  \A s \in Slots :
    (reqs[s].pc = "done" /\ reqs[s].route = "metrics" /\ reqs[s].pf # <<>>) =>
      /\ reqs[s].resp.status = 200
      /\ Len(reqs[s].resp.perTicker) = Len(reqs[s].pf)
      /\ \A i \in 1..Len(reqs[s].pf) :
           /\ reqs[s].resp.perTicker[i].ticker = reqs[s].pf[i].ticker
           /\ IsErrorRow(reqs[s].resp.perTicker[i]) =>
                DOMAIN reqs[s].resp.perTicker[i] = {"ticker", "error"}
      /\ reqs[s].resp.totals.tickers = Cardinality(CompleteIdx(reqs[s].resp.perTicker))
      /\ reqs[s].resp.totals.marketValue = SumComplete(reqs[s].resp.perTicker, "marketValue")
      /\ reqs[s].resp.totals.pricePnL = SumComplete(reqs[s].resp.perTicker, "priceReturnAbs")
      /\ reqs[s].resp.totals.annualDivIncome =
           SumComplete(reqs[s].resp.perTicker, "annualDivIncome")

\* three positions, the first failed, the two after it analyzed
C1_Witness ==
  \E s \in Slots :
    /\ reqs[s].pc = "done" /\ reqs[s].route = "metrics" /\ reqs[s].resp.status = 200
    /\ Len(reqs[s].pf) = 3
    /\ CompleteIdx(reqs[s].resp.perTicker) = {2, 3}
    /\ reqs[s].resp.totals.tickers = 2

\* C2: a 200 answer of /metrics has exactly one row per position of the
\* configured map, in the map's order, for failed and successful analyses
\* alike; the row of a failed one has the ticker and a non-empty error
\* message and no other field, the row of a successful one has every field.
C2_OneRowPerPosition ==
  \A s \in Slots :
    (reqs[s].route = "metrics" /\ reqs[s].resp.status = 200) =>
      /\ env.PORTFOLIO_JSON.kind = "map"
      /\ Len(reqs[s].resp.perTicker) = Len(env.PORTFOLIO_JSON.entries)
      /\ \A i \in 1..Len(reqs[s].resp.perTicker) :
           /\ reqs[s].resp.perTicker[i].ticker = env.PORTFOLIO_JSON.entries[i].ticker
           /\ IF IsErrorRow(reqs[s].resp.perTicker[i])
              THEN /\ DOMAIN reqs[s].resp.perTicker[i] = {"ticker", "error"}
                   /\ reqs[s].resp.perTicker[i].error # ""
              ELSE DOMAIN reqs[s].resp.perTicker[i] = RowFields

\* two failed positions and a successful one after them
C2_Witness ==
  \E s \in Slots :
    /\ reqs[s].route = "metrics" /\ reqs[s].resp.status = 200
    /\ Len(env.PORTFOLIO_JSON.entries) = 3
    /\ CompleteIdx(reqs[s].resp.perTicker) = {3}

\* C3 as stated: the table of a /metrics.html answer has a row for every
\* configured ticker, failed ones included.
C3_HtmlHasEveryTicker ==
  \A s \in Slots :
    (reqs[s].route = "html" /\ reqs[s].resp.status = 200) =>
      \A i \in 1..Len(env.PORTFOLIO_JSON.entries) :
        \E j \in 1..Len(reqs[s].resp.table) :
          reqs[s].resp.table[j].ticker = env.PORTFOLIO_JSON.entries[i].ticker

\* C3, amended: the table of a /metrics.html answer is made from the rows of
\* the /metrics answer: it has one row for each ticker analyzed
\* successfully, in the map's order and with that row's data, and no row
\* for a ticker whose analysis failed.
C3_HtmlOmitsFailed ==
  \A s \in Slots :
    (reqs[s].route = "html" /\ reqs[s].resp.status = 200) =>
      /\ Len(reqs[s].resp.perTicker) = Len(env.PORTFOLIO_JSON.entries)
      /\ Len(reqs[s].resp.table) = Cardinality(CompleteIdx(reqs[s].resp.perTicker))
      /\ \A i \in 1..Len(reqs[s].resp.perTicker) :
           IF IsErrorRow(reqs[s].resp.perTicker[i])
           THEN \A j \in 1..Len(reqs[s].resp.table) :
                  reqs[s].resp.table[j].ticker # reqs[s].resp.perTicker[i].ticker
           ELSE \E j \in 1..Len(reqs[s].resp.table) :
                  /\ j = Cardinality({k \in CompleteIdx(reqs[s].resp.perTicker) : k <= i})
                  /\ reqs[s].resp.table[j].ticker = reqs[s].resp.perTicker[i].ticker
                  /\ reqs[s].resp.table[j].shares = reqs[s].resp.perTicker[i].shares

\* a page with the rows of two tickers and none for the failed third
C3_Witness ==
  \E s \in Slots :
    /\ reqs[s].route = "html" /\ reqs[s].resp.status = 200
    /\ Len(reqs[s].resp.perTicker) = 3
    /\ Len(reqs[s].resp.table) = 2

\* C4: the handler body runs only for a request whose token (the Bearer
\* token of the Authorization header when there is one, else the key query
\* parameter) equals the configured METRICS_KEY; with a key configured any
\* other request is answered 401, and with none configured every request is
\* answered 500, whatever it presents; a rejected request runs nothing.
C4_RequireKey ==
  \A s \in Slots :
    (reqs[s].pc # "free" /\ reqs[s].auth # Forgotten) =>
      IF env.METRICS_KEY = ""
      THEN ~reqs[s].ran /\ reqs[s].resp.status = 500 /\ reqs[s].fetches = 0
      ELSE IF \/ reqs[s].auth.bearer = env.METRICS_KEY
              \/ reqs[s].auth.bearer = "absent" /\ reqs[s].auth.query = env.METRICS_KEY
      THEN reqs[s].resp.status # 401
      ELSE ~reqs[s].ran /\ reqs[s].resp.status = 401 /\ reqs[s].fetches = 0

\* a request let in on its query parameter, waiting for the provider
C4_Witness ==
  \E s \in Slots :
    /\ reqs[s].ran /\ reqs[s].pc = "net"
    /\ reqs[s].auth = [bearer |-> "absent", query |-> Secret]

InvalidField(v) == IsNaN(Number(v)) \/ Number(v) = Zero
InvalidPortfolio(pf) ==
  \/ pf.kind # "map"
  \/ pf.entries = <<>>
  \/ \E i \in 1..Len(pf.entries) :
       InvalidField(pf.entries[i].shares) \/ InvalidField(pf.entries[i].avgPrice)

\* C5: when PORTFOLIO_JSON is missing, not JSON, an empty map, or has a
\* position whose shares or avgPrice is missing, non-numeric or zero, every
\* request that passes the key check is answered 500 at once: no position is
\* analyzed, no row made, no provider request sent, nothing cached.
C5_InvalidConfigFails ==
  InvalidPortfolio(env.PORTFOLIO_JSON) =>
    /\ \A name \in DOMAIN cache : cache[name] = EmptyObj
    /\ \A s \in Slots :
         reqs[s].ran =>
           /\ reqs[s].pc = "done" /\ reqs[s].resp.status = 500
           /\ reqs[s].i = 0 /\ reqs[s].rows = <<>> /\ reqs[s].fetches = 0
           /\ reqs[s].resp.perTicker = <<>>
           /\ reqs[s].route = "metrics" =>
                reqs[s].resp.type = "json" /\ reqs[s].resp.error # ""

\* a map whose first position is valid and whose second has zero shares
C5_Witness ==
  /\ env.PORTFOLIO_JSON.kind = "map"
  /\ Len(env.PORTFOLIO_JSON.entries) = 2
  /\ env.PORTFOLIO_JSON.entries[2].shares = Zero
  /\ \E s \in Slots : reqs[s].ran /\ reqs[s].route = "metrics" /\ reqs[s].resp.status = 500

\* C6 as stated: without the provider credential a request fails as a
\* whole: an error response, no rows.
C6_MissingCredentialFatal ==
  \A s \in Slots :
    (~env.ALPHA_VANTAGE_KEY /\ reqs[s].ran /\ reqs[s].pc = "done") =>
      reqs[s].resp.status = 500 /\ reqs[s].resp.perTicker = <<>>

\* C6, amended: without the provider credential (and with a valid
\* portfolio) every analysis fails before a provider request is sent: a
\* request that passes the key check is answered at once, 200, with one
\* error row 'ALPHA_VANTAGE_KEY missing' per position and totals over no row.
C6_MissingCredentialPerTicker ==
  (~env.ALPHA_VANTAGE_KEY /\ ~InvalidPortfolio(env.PORTFOLIO_JSON)) =>
    \A s \in Slots :
      reqs[s].ran =>
        /\ reqs[s].pc = "done" /\ reqs[s].fetches = 0
        /\ reqs[s].resp.status = 200
        /\ Len(reqs[s].resp.perTicker) = Len(env.PORTFOLIO_JSON.entries)
        /\ \A i \in 1..Len(reqs[s].resp.perTicker) :
             reqs[s].resp.perTicker[i] =
               [ticker |-> env.PORTFOLIO_JSON.entries[i].ticker,
                error |-> "ALPHA_VANTAGE_KEY missing"]
        /\ reqs[s].resp.totals.tickers = 0
        /\ reqs[s].resp.totals.marketValue = Zero
        /\ reqs[s].resp.table = <<>>

\* three positions, three error rows, answered without a fetch
C6_Witness ==
  /\ ~env.ALPHA_VANTAGE_KEY
  /\ \E s \in Slots :
       /\ reqs[s].ran /\ reqs[s].route = "metrics" /\ reqs[s].resp.status = 200
       /\ Len(reqs[s].resp.perTicker) = 3 /\ reqs[s].fetches = 0

\* C7 as stated: every position loadAll returns has strictly positive
\* shares and avgPrice.
C7_PositivePositions ==
  \A s \in Slots :
    \A i \in 1..Len(reqs[s].pf) :
      JsGt(reqs[s].pf[i].shares, Zero) /\ JsGt(reqs[s].pf[i].avgPrice, Zero)

\* the entry the call found was none, or as old as the TTL or older
MissSeen(call) == call.seen = <<>> \/ call.now - call.seen[1].t >= Ttl(call.name)

\* C8: a call of a memoized fetcher that finds no entry for its key, or one
\* as old as the TTL, calls the underlying fetcher exactly once; when that
\* resolves, the entry of the key is the fetched value with the time the
\* call read when it began (later than the time of the entry it found), and
\* the call returns the fetched value.
C8_MissFetchesOnceAndStores ==
  \A c \in Callers :
    (calls[c].pc # "idle" /\ MissSeen(calls[c])) =>
      /\ calls[c].fnCalls = 1
      /\ calls[c].pc = "returned" =>
           /\ calls[c].ret = calls[c].fetched
           /\ calls[c].stored = <<[v |-> calls[c].fetched, t |-> calls[c].now]>>
           /\ calls[c].seen # <<>> => calls[c].stored[1].t > calls[c].seen[1].t

\* an expired entry replaced by another value
C8_Witness ==
  \E c \in Callers :
    /\ calls[c].pc = "returned" /\ calls[c].seen # <<>> /\ MissSeen(calls[c])
    /\ calls[c].stored[1].v # calls[c].seen[1].v

FiniteOrNull(v) == v = Null \/ v.k = "num"

\* C9 as stated: every derived field of a row and of the totals is a finite
\* number or null, and a ratio whose denominator is zero or negative is null.
C9_FiniteOrNull ==
  /\ calc.op \in {"row", "rowFmp"} =>
       /\ \A f \in DerivedFields : FiniteOrNull(calc.out[f])
       /\ ~JsGt(calc.out.currentPrice, Zero) => calc.out.currentYield = Null
       /\ ~JsGt(calc.t.avgPrice, Zero) => calc.out.yieldOnCost = Null
       /\ ~JsGt(calc.out.startPrice, Zero) => calc.out.priceReturnPct = Null
  /\ calc.op = "totals" => \A f \in TotalFields : FiniteOrNull(calc.totals[f])

\* C10: safeDiv(a, 0) is null whatever a is, and safeDiv(0, b) is 0 for
\* every number b other than 0, the infinities included.
C10_SafeDivZero ==
  calc.op = "safeDiv" =>
    /\ calc.b = Zero => calc.out = Null
    /\ (calc.a = Zero /\ calc.b.k \in {"num", "inf"} /\ calc.b # Zero) => calc.out = Zero

\* a non-zero numerator over zero
C10_Witness ==
  /\ calc.op = "safeDiv" /\ calc.b = Zero /\ calc.a = Num(150) /\ calc.out = Null

\* x * x * ... * x, n times
RECURSIVE RatPow(_, _)
RatPow(x, n) == IF n = 0 THEN Num(1) ELSE JsMul(x, RatPow(x, n - 1))
\* x is the n-th power of a natural number, n >= 3 (the cube of 1290 is
\* more than any integer here)
IsPower(x, n) == \E r \in 0..(IF x < 1290 THEN x ELSE 1290) : PowCap(r, n, x) = x

\* C11: dgr(byYear, N) is null when byYear has no total for ly = current
\* year - 1, or none for ly - N, or one that is <= 0 for ly - N; otherwise
\* it is the number g with (1 + g)^N = total[ly] / total[ly - N] (the root
\* rounded down when it is not rational), and it is the same whatever the
\* totals of the other years are.
C11_Dgr ==
  calc.op = "dgr" =>
    /\ calc.out = calc.alt
    /\ IF \/ calc.arg.ly \notin DOMAIN calc.arg.byYear
          \/ calc.arg.ly - calc.arg.n \notin DOMAIN calc.arg.byYear
          \/ JsLe(calc.arg.byYear[calc.arg.ly - calc.arg.n], Zero)
       THEN calc.out = Null
       ELSE /\ calc.out.k = "num"
            /\ JsLe(RatPow(JsAdd(calc.out, Num(1)), calc.arg.n),
                    JsDiv(calc.arg.byYear[calc.arg.ly],
                          calc.arg.byYear[calc.arg.ly - calc.arg.n]))
            /\ LET q == JsDiv(calc.arg.byYear[calc.arg.ly],
                              calc.arg.byYear[calc.arg.ly - calc.arg.n])
               IN (IsPower(q.n, calc.arg.n) /\ IsPower(q.d, calc.arg.n)) =>
                    RatPow(JsAdd(calc.out, Num(1)), calc.arg.n) = q

\* totals {2020: 1.00, 2023: 1.331} with ly = 2023 and N = 3: 0.10
C11_Witness ==
  /\ calc.op = "dgr" /\ calc.arg.n = 3 /\ calc.arg.ly = 2023
  /\ calc.arg.byYear = Put(Put(EmptyObj, 2020, Num(1)), 2023, Rat(1331, 1000))
  /\ calc.out = Rat(1, 10)

\* the sum of the positive amounts of the records of series with a date in D
SumPositive(series, D) ==
  LET F[i \in 0..Len(series)] ==
        IF i = 0 THEN Zero
        ELSE IF series[i].date \in D /\ JsGt(Number(series[i].div), Zero)
        THEN JsAdd(F[i - 1], Number(series[i].div)) ELSE F[i - 1]
  IN F[Len(series)]
DatesOfYear(y) == {d \in DivDates : d.y = y}
DatesInTtm(today) == {d \in DivDates : IsAfter(d, Minus365(today))}

\* C12: the result of a dividend aggregation, byYear and ttmDivPS, is the
\* same as for the series without its events of a zero, negative or
\* non-numeric amount: a year has a bucket only if a positive amount falls in
\* it, the bucket is the sum of the positive amounts of the year, and
\* ttmDivPS the sum of those after today - 365 days.
C12_NonPositiveIgnored ==
  calc.op = "dividends" =>
    /\ calc.out.byYear = calc.alt.byYear
    /\ calc.out.ttmDivPS = calc.alt.ttmDivPS
    /\ DOMAIN calc.out.byYear =
         {calc.arg.series[i].date.y : i \in {j \in 1..Len(calc.arg.series) :
                                               JsGt(Number(calc.arg.series[j].div), Zero)}}
    /\ \A y \in DOMAIN calc.out.byYear :
         calc.out.byYear[y] = SumPositive(calc.arg.series, DatesOfYear(y))
    /\ calc.out.ttmDivPS = SumPositive(calc.arg.series, DatesInTtm(calc.arg.today))

\* a positive, a negative and a non-numeric amount on one day of the last
\* twelve months: only the positive one counts
C12_Witness ==
  /\ calc.op = "dividends" /\ calc.arg.kind = "events"
  /\ Len(calc.arg.series) = 3
  /\ \A i \in 1..3 : calc.arg.series[i].date = Date(2025, 100)
  /\ calc.arg.series[1].div = S1("2")
  /\ calc.arg.series[2].div = Str(<<"-", "1">>)
  /\ calc.arg.series[3].div = Str(<<"a", "b", "c">>)
  /\ calc.out.ttmDivPS = Num(2)
  /\ calc.out.byYear = Put(EmptyObj, 2025, Num(2))

\* what the provider gave as baseline price of the ticker of a row input: for
\* the daily series the price of the first bar on or after START_DATE, for
\* the FMP answers the adjClose or else the close of the bar found; Undef when
\* there is none
BaselineOf(in) ==
  IF in.rev = "av"
  THEN LET after == {i \in 1..Len(in.series) : DayNo(in.series[i].date) >= DayNo(START_DATE)}
           first == CHOOSE i \in after : \A j \in after : i <= j
       IN IF after = {} THEN Undef
          ELSE IF in.adjusted THEN in.series[first].adjClose ELSE in.series[first].close
  ELSE IF in.bar = <<>> THEN Undef
  ELSE IF ~IsNullish(in.bar[1].adjClose) THEN in.bar[1].adjClose ELSE in.bar[1].close

\* C13: with no baseline price both price-return fields of the row are null,
\* whatever the current price; a price-return field is a value only when the
\* baseline is present and above zero, and then priceReturnAbs is
\* (current - baseline) x shares and priceReturnPct (current - baseline) / baseline.
C13_PriceReturn ==
  calc.op = "row" =>
    /\ IsNullish(BaselineOf(calc.arg)) =>
         calc.out.priceReturnAbs = Null /\ calc.out.priceReturnPct = Null
    /\ (calc.out.priceReturnAbs # Null \/ calc.out.priceReturnPct # Null) =>
         /\ ~IsNullish(BaselineOf(calc.arg))
         /\ JsGt(Number(BaselineOf(calc.arg)), Zero)
         /\ calc.out.startPrice = Number(BaselineOf(calc.arg))
         /\ calc.out.priceReturnAbs =
              JsMul(JsSub(calc.out.currentPrice, calc.out.startPrice), calc.arg.t.shares)
         /\ calc.out.priceReturnPct =
              JsDiv(JsSub(calc.out.currentPrice, calc.out.startPrice), calc.out.startPrice)

\* a quote of 150 and no bar near the start date, in the revision that
\* converts the missing baseline to 0
C13_Witness ==
  /\ calc.op = "row" /\ calc.arg.rev = "fmp2"
  /\ calc.arg.bar = <<>> /\ calc.arg.quote.price = Num(150)
  /\ calc.out.currentPrice = Num(150)
  /\ calc.out.priceReturnAbs = Null /\ calc.out.priceReturnPct = Null

\* what the provider gave as current price of the ticker of a row input: the
\* price of the last bar of the daily series, the price (in part_002 or else
\* the close) of the quote; Undef when there is none
CurrentOf(in) ==
  IF in.rev = "av"
  THEN IF in.series = <<>> THEN Undef
       ELSE IF in.adjusted THEN in.series[Len(in.series)].adjClose
       ELSE in.series[Len(in.series)].close
  ELSE IF in.rev = "fmp2" /\ IsNullish(in.quote.price) THEN in.quote.close
  ELSE in.quote.price

\* C14 as stated: when the provider supplies no current price the row has
\* neither a currentPrice nor a marketValue (both null), and otherwise
\* marketValue is currentPrice x shares.
C14_MarketValue ==
  calc.op = "row" =>
    /\ IsNullish(CurrentOf(calc.arg)) =>
         IsNullish(calc.out.currentPrice) /\ calc.out.marketValue = Null
    /\ IF IsNullish(calc.out.currentPrice) THEN calc.out.marketValue = Null
       ELSE calc.out.marketValue = JsMul(calc.out.currentPrice, calc.arg.t.shares)

\* the sum of field f over the rows that have it
SumHaving(rows, f) ==
  LET having == {i \in 1..Len(rows) : ~IsNullish(Field(rows[i], f))}
      G[S \in SUBSET having] ==
        IF S = {} THEN Zero
        ELSE LET i == CHOOSE j \in S : TRUE IN JsAdd(rows[i][f], G[S \ {i}])
  IN G[having]

\* the sum of startPrice x shares over the rows that have a startPrice
BaselineValue(rows) ==
  LET having == {i \in 1..Len(rows) : ~IsNullish(Field(rows[i], "startPrice"))}
      G[S \in SUBSET having] ==
        IF S = {} THEN Zero
        ELSE LET i == CHOOSE j \in S : TRUE
             IN JsAdd(JsMul(rows[i].startPrice, rows[i].shares), G[S \ {i}])
  IN G[having]

\* C15: the totals marketValue, pricePnL and annualDivIncome of aggregate(rows)
\* are the sums of marketValue, priceReturnAbs and annualDivIncome over the
\* rows that have the field; a row without the field counts 0 and never makes
\* a total null.
C15_NullCountsZero ==
  calc.op = "aggregate" =>
    /\ calc.out.marketValue = SumHaving(calc.arg.rows, "marketValue")
    /\ calc.out.pricePnL = SumHaving(calc.arg.rows, "priceReturnAbs")
    /\ calc.out.annualDivIncome = SumHaving(calc.arg.rows, "annualDivIncome")
    /\ calc.out.marketValue.k = "num" /\ calc.out.pricePnL.k = "num"
    /\ calc.out.annualDivIncome.k = "num"
    /\ calc.out.tickers = Len(calc.arg.rows)

\* two rows, the first without a market value: the total is the second's
C15_Witness ==
  /\ calc.op = "aggregate" /\ Len(calc.arg.rows) = 2
  /\ calc.arg.rows[1].marketValue = Null
  /\ calc.arg.rows[2].marketValue = Num(7500)
  /\ calc.out.marketValue = Num(7500)

\* C16: totals.priceReturnPct is the sum of priceReturnAbs divided by the sum
\* of startPrice x shares (a row without startPrice counting 0) when that sum
\* is above zero, and null when it is zero or negative, as for no rows.
C16_TotalReturnPct ==
  calc.op = "aggregate" =>
    /\ calc.out.startValue = BaselineValue(calc.arg.rows)
    /\ calc.out.priceReturnPct =
         IF JsGt(BaselineValue(calc.arg.rows), Zero)
         THEN JsDiv(SumHaving(calc.arg.rows, "priceReturnAbs"), BaselineValue(calc.arg.rows))
         ELSE Null
    /\ calc.arg.rows = <<>> => calc.out.priceReturnPct = Null

\* a row without baseline and one that went from 100 to 150
C16_Witness ==
  /\ calc.op = "aggregate" /\ Len(calc.arg.rows) = 2
  /\ IsNullish(calc.arg.rows[1].startPrice)
  /\ calc.arg.rows[2].startPrice = Num(100)
  /\ calc.out.priceReturnPct = Rat(1, 2)

\* C17: a position of 50 shares bought at 120.50, with current price 150,
\* 2.00 of dividends per share in the last twelve months and baseline price
\* 100, has marketValue 7500, currentYield 2/150, yieldOnCost 2/120.5,
\* priceReturnAbs 2500, priceReturnPct 0.5, annualDivIncome 100 and
\* monthlyDivIncome 100/12; and for every row annualDivIncome is ttmDivPS x
\* shares and monthlyDivIncome is annualDivIncome / 12.
C17_EndToEnd ==
  calc.op = "row" =>
    /\ calc.out.annualDivIncome = JsMul(Coalesce(calc.out.ttmDivPS, Zero), calc.arg.t.shares)
    /\ calc.out.monthlyDivIncome = JsDiv(calc.out.annualDivIncome, Num(12))
    /\ ( /\ calc.arg.t.shares = Num(50) /\ calc.arg.t.avgPrice = Rat(241, 2)
         /\ CurrentOf(calc.arg) \in {Num(150), Str(<<"1", "5", "0">>)}
         /\ BaselineOf(calc.arg) \in {Num(100), Str(<<"1", "0", "0">>)}
         /\ calc.out.ttmDivPS = Num(2) )
       => /\ calc.out.currentPrice = Num(150) /\ calc.out.startPrice = Num(100)
          /\ calc.out.marketValue = Num(7500)
          /\ calc.out.currentYield = Rat(1, 75)
          /\ calc.out.yieldOnCost = Rat(4, 241)
          /\ calc.out.priceReturnAbs = Num(2500)
          /\ calc.out.priceReturnPct = Rat(1, 2)
          /\ calc.out.annualDivIncome = Num(100)
          /\ calc.out.monthlyDivIncome = Rat(25, 3)

\* the example, from a quote, a start bar and one dividend of 2.00
C17_Witness ==
  /\ calc.op = "row" /\ calc.arg.rev = "fmp3"
  /\ calc.arg.t = Position(AAA, Num(50), Rat(241, 2))
  /\ calc.arg.quote.price = Num(150)
  /\ calc.arg.bar # <<>> /\ calc.arg.bar[1].adjClose = Num(100)
  /\ calc.out.ttmDivPS = Num(2)
  /\ calc.out.marketValue = Num(7500) /\ calc.out.monthlyDivIncome = Rat(25, 3)

\* C18 as stated: every fetch of a ticker is started before the result of any
\* of them is awaited, so while analyzeTicker waits for a fetch it holds the
\* result of no other; the row is computed only after all of them completed,
\* and a failed fetch leaves no row of metrics, only the error.
C18_FanOutJoin ==
  \A s \in Slots :
    /\ reqs[s].pc = "net" => reqs[s].dres = NoDaily
    /\ \A i \in 1..Len(reqs[s].rows) :
         IsErrorRow(reqs[s].rows[i]) => DOMAIN reqs[s].rows[i] = {"ticker", "error"}

\* the requests of a fetcher: _fetchDailyBundle asks for the two daily
\* functions, _fetchMonthlyAdjusted for the monthly one
FunctionsOf(name) ==
  IF name = "daily" THEN {"TIME_SERIES_DAILY_ADJUSTED", "TIME_SERIES_DAILY"}
  ELSE IF name = "monthly" THEN {"TIME_SERIES_MONTHLY_ADJUSTED"} ELSE {}

\* the log of the requests of a pending call: each for a function of the
\* fetcher, no two for the same function and symbol, all but the last answered
SentOnce(c) ==
  \A i \in 1..Len(c.sent) :
    /\ c.sent[i].fn \in FunctionsOf(c.name)
    /\ \A j \in 1..Len(c.sent) :
         (i # j) => <<c.sent[i].fn, c.sent[i].symbol>> # <<c.sent[j].fn, c.sent[j].symbol>>
    /\ (i < Len(c.sent)) => c.sent[i].answer # "pending"

\* the request i of the call of slot s is answered by an envelope in this
\* step, and the call goes on
EnvelopeAnswers(s, i) ==
  /\ reqs[s].pc = "net" /\ reqs'[s].pc = "net"
  /\ i = Len(reqs[s].call.sent) /\ i < Len(reqs'[s].call.sent)
  /\ reqs'[s].call.sent[i].answer = "note"

\* C19: an answer with a Note, Information or Error Message is a failed
\* fetch: the attempt ends with that message as its error, no value comes of
\* it and no cache changes; the fetcher may go on to its next attempt, and no
\* request of a call has the function and symbol of an earlier one.
C19_EnvelopeIsFailure ==
  [][\A s \in Slots :
       /\ reqs'[s].pc = "net" => SentOnce(reqs'[s].call) /\ reqs'[s].val = NoVal
       /\ \A i \in 1..Len(reqs[s].call.sent) :
            EnvelopeAnswers(s, i) =>
              /\ cache' = cache
              /\ reqs'[s].call.lastErr = "AV API message"
              /\ reqs'[s].rows = reqs[s].rows
              /\ Len(reqs'[s].call.sent) = i + 1]_vars

\* a Note for the adjusted daily series of AAA, and the plain daily series
\* asked for next
C19_Witness ==
  \E s \in Slots :
    /\ reqs[s].pc = "net" /\ Len(reqs[s].call.sent) = 2
    /\ reqs[s].call.sent[1] =
         [fn |-> "TIME_SERIES_DAILY_ADJUSTED", symbol |-> AAA, answer |-> "note"]
    /\ reqs[s].call.sent[2] =
         [fn |-> "TIME_SERIES_DAILY", symbol |-> AAA, answer |-> "pending"]
    /\ reqs[s].call.lastErr = "AV API message"
    /\ AAA \notin DOMAIN cache.daily

\* caller c calls a memoized fetcher in this step
CallsNow(c) ==
  /\ calls[c].pc # "fetching" /\ calls'[c].pc \in {"returned", "fetching"}
  /\ calls'[c] # calls[c]

\* C20: a call of a memoized fetcher for key k that finds an entry younger
\* than the TTL returns its value, calls the underlying fetcher zero times and
\* changes no cache; an entry as old as the TTL or older is not served, the
\* fetcher is called; and what a call stores or fails to store changes the
\* entry of no other key and no other fetcher's cache.
C20_HitAndFrame ==
  [][\A c \in Callers :
       LET name == calls'[c].name
           k == calls'[c].key
           e == entryOf(cache[name], k)
       IN /\ CallsNow(c) =>
               /\ cache' = cache
               /\ calls'[c].seen = e
               /\ IF e # <<>> /\ clock - e[1].t < Ttl(name)
                  THEN /\ calls'[c].pc = "returned" /\ calls'[c].ret = e[1].v
                       /\ calls'[c].fnCalls = 0
                  ELSE calls'[c].pc = "fetching" /\ calls'[c].fnCalls = 1
          /\ (calls[c].pc = "fetching" /\ calls'[c].pc # "fetching") =>
               \A n \in MemoNames, key \in {AAA, BBB} :
                 (<<n, key>> # <<calls[c].name, calls[c].key>>) =>
                   entryOf(cache'[n], key) = entryOf(cache[n], key)]_vars

\* the monthly series of AAA served from an entry six hours old, while the
\* daily entry of AAA of the same age has expired and BBB has an entry too
C20_Witness ==
  \E c \in Callers :
    /\ calls[c].pc = "returned" /\ calls[c].name = "monthly" /\ calls[c].key = AAA
    /\ calls[c].fnCalls = 0 /\ calls[c].seen # <<>>
    /\ calls[c].ret = calls[c].seen[1].v
    /\ calls[c].now - calls[c].seen[1].t = TtlDaily
    /\ AAA \in DOMAIN cache.daily /\ calls[c].now - cache.daily[AAA].t = TtlDaily
    /\ BBB \in DOMAIN cache.daily

\* the fetches of fetcher name for key in flight
InFlight(cs, name, key) ==
  {d \in Callers : cs[d].pc = "fetching" /\ cs[d].name = name /\ cs[d].key = key}

\* C21: there is no single-flight lock: a call that arrives while another
\* call's fetch for the same key is in flight, the key having no valid entry,
\* calls the underlying fetcher itself, and both fetches are in flight at
\* once; a call returns without a fetch only when it finds a valid entry.
C21_NoSingleFlight ==
  [][\A c \in Callers :
       CallsNow(c) =>
         LET name == calls'[c].name
             key == calls'[c].key
         IN /\ (InFlight(calls, name, key) # {} /\ ~memoHit(cache[name], key, clock, Ttl(name))) =>
                 /\ calls'[c].pc = "fetching" /\ calls'[c].fnCalls = 1
                 /\ InFlight(calls', name, key) = InFlight(calls, name, key) \cup {c}
            /\ calls'[c].fnCalls = 0 =>
                 /\ calls'[c].pc = "returned"
                 /\ memoHit(cache[name], key, clock, Ttl(name))]_vars

\* two fetches of the daily bundle of AAA in flight at once, each its own
C21_Witness ==
  /\ calls[1].pc = "fetching" /\ calls[2].pc = "fetching"
  /\ calls[1].name = "daily" /\ calls[2].name = "daily"
  /\ calls[1].key = AAA /\ calls[2].key = AAA
  /\ calls[1].fnCalls = 1 /\ calls[2].fnCalls = 1
  /\ calls[1].now < calls[2].now

\* the requests of _fetchDailyBundle in their order: for each symbol variant
\* in list order DAILY_ADJUSTED, then DAILY
FixedOrder(ticker) ==
  [i \in 1..(2 * Len(avSymbolVariants(ticker))) |->
     [fn |-> IF i % 2 = 1 THEN "TIME_SERIES_DAILY_ADJUSTED" ELSE "TIME_SERIES_DAILY",
      symbol |-> avSymbolVariants(ticker)[(i + 1) \div 2]]]

Succeeds(o) == o.kind = "json" /\ o.hasSeries

\* the error of a failed answer to a request for function fn
ErrorOf(o, fn) ==
  IF o.kind = "note" THEN "AV API message"
  ELSE IF o.kind = "http" THEN "AV http status"
  ELSE IF fn = "TIME_SERIES_DAILY_ADJUSTED" THEN "No daily adjusted series"
  ELSE "No daily series"

\* _fetchDividends of the FMP revision: the Alpha Vantage fallback is called
\* only after the FMP attempt failed; an FMP answer is returned without any
\* further request
FallbackAfterFmp ==
  calc.op = "fetchDividends" =>
    LET failed == calc.arg.fmp.kind \in {"nokey", "http", "notjson"}
        sent == calc.out.sent
    IN /\ (\E i \in 1..Len(sent) : sent[i] = "av") <=> (failed /\ calc.arg.av.kind # "nokey")
       /\ \A i \in 1..Len(sent) : sent[i] = "av" => i = Len(sent)
       /\ \A i \in 1..Len(sent) : sent[i] = "fmp" => i = 1
       /\ ~failed => sent = <<"fmp">> /\ calc.out.ok
       /\ failed => (calc.out.ok <=> (calc.arg.av.kind = "json" /\ calc.arg.av.hasSeries))

\* C22: the requests _fetchDailyBundle sends are the first ones of the fixed
\* order, each sent only after all before it failed; the first answer with a
\* series is returned with its symbol and no further request is sent; the
\* call throws only when every attempt has failed, and then the last error.
\* And the dividend fetcher of the FMP revision calls its fallback only
\* after the FMP attempt failed.
C22_FixedFallbackOrder ==
  /\ FallbackAfterFmp
  /\ calc.op = "fetchDaily" =>
    LET order == FixedOrder(calc.arg.ticker)
        answers == calc.arg.answers
        log == calc.out.log
        good == {i \in 1..Len(order) : Succeeds(answers[i])}
    IN /\ ~calc.out.pending
       /\ Len(log) <= Len(order)
       /\ \A i \in 1..Len(log) : log[i] = order[i]
       /\ \A i \in 1..(Len(log) - 1) : ~Succeeds(answers[i])
       /\ IF good # {}
          THEN /\ Len(log) \in good /\ \A i \in good : Len(log) <= i
               /\ calc.out.threw = <<>>
               /\ calc.out.returned =
                    <<[symbol |-> order[Len(log)].symbol, series |-> answers[Len(log)].series,
                       adjusted |-> order[Len(log)].fn = "TIME_SERIES_DAILY_ADJUSTED"]>>
          ELSE /\ Len(log) = Len(order)
               /\ calc.out.returned = <<>>
               /\ calc.out.threw = <<ErrorOf(answers[Len(order)], order[Len(order)].fn)>>

\* SRU-UN.TO: four failures, then the adjusted series of the third variant
C22_Witness ==
  /\ calc.op = "fetchDaily" /\ calc.arg.ticker = SRU
  /\ Len(calc.out.log) = 5
  /\ calc.out.log[2] = [fn |-> "TIME_SERIES_DAILY", symbol |-> SRU]
  /\ calc.out.log[5] = [fn |-> "TIME_SERIES_DAILY_ADJUSTED",
                        symbol |-> <<"SRU", ".", "UN", ".", "TRT">>]
  /\ calc.out.returned # <<>> /\ calc.out.returned[1].adjusted

\* C23: a /metrics request that passed the key check is answered exactly
\* once, provided every provider fetch resolves or rejects: while it waits
\* for the provider nothing has been sent; it is eventually answered; the
\* answer is the complete JSON result, a row for every position and the
\* totals, or a 500 with the error; and once sent the answer stays as it is.
C23_ExactlyOneResponse ==
  /\ [][\A s \in Slots :
          /\ reqs'[s].pc = "net" => reqs'[s].resp = NoResp
          /\ (reqs'[s].pc = "done" /\ reqs'[s].ran /\ reqs'[s].route = "metrics") =>
               \/ /\ reqs'[s].resp.status = 200 /\ reqs'[s].resp.error = ""
                  /\ Len(reqs'[s].resp.perTicker) = Len(reqs'[s].pf)
                  /\ Len(reqs'[s].pf) > 0
                  /\ reqs'[s].resp.totals =
                       aggregate(FilterSeq(reqs'[s].resp.perTicker, NotErrorRow))
               \/ /\ reqs'[s].resp.status = 500 /\ reqs'[s].resp.error # ""
                  /\ reqs'[s].resp.perTicker = <<>>
          /\ (reqs[s].pc = "done" /\ reqs'[s] # reqs[s]) => served' = served + 1]_vars
  /\ \A s \in Slots : (reqs[s].pc = "net") ~> (reqs[s].pc = "done")

\* a /metrics request answered with three rows after waiting for the provider
C23_Witness ==
  \E s \in Slots :
    /\ reqs[s].pc = "done" /\ reqs[s].route = "metrics" /\ reqs[s].ran
    /\ reqs[s].fetches > 2
    /\ reqs[s].resp.status = 200 /\ Len(reqs[s].resp.perTicker) = 3

\* C24: when the fetch of a memoized fetcher throws, the call throws too:
\* it returns no value and stores nothing, and every cache is left as it
\* was, so that an expired entry of the key keeps its value and timestamp;
\* the next call for the key, finding the entry the failed call found,
\* invokes the fetcher again.
C24_ThrowStoresNothing ==
  [][\A c \in Callers :
       /\ (calls[c].pc = "fetching" /\ calls'[c].pc = "threw") =>
            /\ cache' = cache
            /\ calls'[c] = [calls[c] EXCEPT !.pc = "threw"]
            /\ calls'[c].stored = <<>> /\ calls'[c].ret = 0 /\ calls'[c].fetched = 0
            /\ \A d \in Callers \ {c} : calls'[d] = calls[d]
       /\ (/\ calls[c].pc = "threw" /\ CallsNow(c)
           /\ calls'[c].name = calls[c].name /\ calls'[c].key = calls[c].key
           /\ entryOf(cache[calls[c].name], calls[c].key) = calls[c].seen) =>
            /\ calls'[c].pc = "fetching" /\ calls'[c].fnCalls = 1
            /\ cache' = cache]_vars

\* a call for AAA that found an expired entry and threw: the entry is there
\* as the call found it
C24_Witness ==
  \E c \in Callers :
    /\ calls[c].pc = "threw" /\ calls[c].name = "daily" /\ calls[c].key = AAA
    /\ calls[c].seen # <<>>
    /\ calls[c].now - calls[c].seen[1].t >= TtlDaily
    /\ entryOf(cache.daily, AAA) = calls[c].seen

\* C25: whatever the interleaving of overlapping calls, the timestamp stored
\* for a key never decreases, and a call that stores over an entry did not
\* start before the call that produced that entry.
C25_TimestampNeverDecreases ==
  [][/\ \A n \in MemoNames, k \in {AAA, BBB} :
          (k \in DOMAIN cache[n] /\ k \in DOMAIN cache'[n]) => cache'[n][k].t >= cache[n][k].t
     /\ \A c \in Callers :
          (/\ calls[c].pc = "fetching" /\ calls'[c].pc = "returned"
           /\ calls[c].key \in DOMAIN cache[calls[c].name]) =>
            calls[c].now >= cache[calls[c].name][calls[c].key].t]_vars

\* a row that adds its price P&L to the total
HasPnL(row) == ~IsNullish(Field(row, "priceReturnAbs"))

\* C26: in aggregate only a row that adds its price P&L (priceReturnAbs is
\* not null) adds startPrice x shares to the baseline value, so that
\* totals.priceReturnPct is the return over the rows with both a current and
\* a baseline price; a row with a baseline and no current price leaves the
\* denominator as it is.
C26_BaselineOnlyWithPnL ==
  calc.op = "aggregate" =>
    /\ calc.out.startValue = BaselineValue(FilterSeq(calc.arg.rows, HasPnL))
    /\ calc.out.priceReturnPct =
         returnPct(SumHaving(calc.arg.rows, "priceReturnAbs"),
                   BaselineValue(FilterSeq(calc.arg.rows, HasPnL)))

====
